---- MODULE Spec2Model ----
(***************************************************************************)
(* Model of the snowpack install core: run() and install() of the install  *)
(* command, with the helpers they call.  Specifiers, output names and URLs *)
(* are sequences of one-character strings, so that prefix tests, extension *)
(* stripping and name sanitization are computed the way the code computes  *)
(* them.                                                                   *)
(***************************************************************************)
EXTENDS Integers, Sequences, FiniteSets, TLC

(***************************************************************************)
(* Bounds of the model.                                                    *)
(***************************************************************************)
\* most install targets handed to one run
MaxTargets == 2
\* most entries of config.alias
MaxAlias == 1
\* most keys of config.webDependencies
MaxWebDeps == 1
\* most bundler warnings delivered to onwarn in one install
MaxWarnings == 1
\* most import statements found in the scanned files
MaxImports == 2
\* most entries of config.knownEntrypoints
MaxKnown == 1
\* most invocations of command in one process
MaxInvocations == 2
\* statements in a scanned file
MaxItems == 2
\* bundler warnings in a build that is followed warning by warning
MaxSeries == 3
\* plugins the user declares
MaxUserPlugins == 2

(***************************************************************************)
(* Strings.                                                                *)
(***************************************************************************)
\* UTF-16 code units of the characters used (Array.prototype.sort order)
CharCode(c) ==
  CASE c = "." -> 46
    [] c = "/" -> 47
    [] c = "?" -> 63
    [] c = "@" -> 64
    [] c = "_" -> 95
    [] c = "a" -> 97
    [] c = "b" -> 98
    [] c = "c" -> 99
    [] c = "j" -> 106
    [] c = "l" -> 108
    [] c = "m" -> 109
    [] c = "q" -> 113
    [] c = "s" -> 115
    [] c = "x" -> 120
    [] OTHER -> 0

\* s < t in the order of Array.prototype.sort() on strings
RECURSIVE StrLess(_, _)
StrLess(s, t) ==
  IF t = <<>> THEN FALSE
  ELSE IF s = <<>> THEN TRUE
  ELSE IF Head(s) = Head(t) THEN StrLess(Tail(s), Tail(t))
  ELSE CharCode(Head(s)) < CharCode(Head(t))

\* String.prototype.startsWith
StartsWith(s, p) ==
  /\ Len(p) <= Len(s)
  /\ SubSeq(s, 1, Len(p)) = p

\* String.prototype.endsWith
EndsWith(s, p) ==
  /\ Len(p) <= Len(s)
  /\ SubSeq(s, Len(s) - Len(p) + 1, Len(s)) = p

\* s without its last n characters
DropLast(s, n) == SubSeq(s, 1, Len(s) - n)

\* index of the last occurrence of character c in s, 0 when there is none
LastIndexOf(s, c) ==
  LET hits == {i \in 1..Len(s) : s[i] = c}
  IN  IF hits = {} THEN 0 ELSE CHOOSE i \in hits : \A j \in hits : j <= i

\* the set sorted into a sequence, as [...set].sort() orders strings
RECURSIVE SortStrings(_)
SortStrings(S) ==
  IF S = {} THEN <<>>
  ELSE LET least == CHOOSE s \in S : \A t \in S : t = s \/ StrLess(s, t)
       IN  <<least>> \o SortStrings(S \ {least})

\* the elements of a sequence
Range(q) == {q[i] : i \in 1..Len(q)}

\* path.extname: from the last "." of the base name, "" when the base name has
\* no "." or only a leading one
extname(p) ==
  LET slash == LastIndexOf(p, "/")
      base  == SubSeq(p, slash + 1, Len(p))
      dot   == LastIndexOf(base, ".")
  IN  IF dot <= 1 THEN <<>> ELSE SubSeq(base, dot, Len(base))

\* validate-npm-package-name: validForNewPackages, on the characters used: a
\* non-empty name that does not start with "." or "_", and is URL-safe either
\* as a whole or as "@scope/name"
UrlSafe(s) == \A i \in 1..Len(s) : s[i] \notin {"/", "?", "@"}

validForNewPackages(dep) ==
  /\ dep # <<>>
  /\ Head(dep) \notin {".", "_"}
  /\ \/ UrlSafe(dep)
     \/ /\ Head(dep) = "@"
        /\ \E i \in 2..Len(dep) :
             /\ dep[i] = "/"
             /\ i > 2
             /\ i < Len(dep)
             /\ UrlSafe(SubSeq(dep, 2, i - 1))
             /\ UrlSafe(SubSeq(dep, i + 1, Len(dep)))

(***************************************************************************)
(* The specifiers, alias values and externalized packages the runs draw    *)
(* their inputs from.                                                      *)
(***************************************************************************)
\* "a"
SpecA == <<"a">>
\* "b"
SpecB == <<"b">>
\* "a/x": a path inside package a
SpecADeep == <<"a", "/", "x">>
\* "a.js": a top-level package whose name ends in .js
SpecADotJs == <<"a", ".", "j", "s">>
\* "ajs"
SpecAjs == <<"a", "j", "s">>
\* "b/x.js": a file inside package b
SpecBFileJs == <<"b", "/", "x", ".", "j", "s">>
\* "b/x.css": an asset inside package b
SpecBFileCss == <<"b", "/", "x", ".", "c", "s", "s">>
\* "b/x.mjs": a module file inside package b
SpecBFileMjs == <<"b", "/", "x", ".", "m", "j", "s">>
\* "a?q": a bare specifier carrying a query string
SpecAQuery == <<"a", "?", "q">>
\* "./l": a local path, the value of a path alias
PathL == <<".", "/", "l">>

Specifiers ==
  {SpecA, SpecB, SpecADeep, SpecADotJs, SpecAjs, SpecBFileJs, SpecBFileCss,
   SpecAQuery}

\* the keys and values config.alias is drawn from
AliasFroms == {SpecA, SpecB}
AliasTos == {SpecA, SpecB, PathL}

\* the packages installOptions.externalPackage is drawn from
ExternalCandidates == {SpecA}

\* the keys config.webDependencies is drawn from
WebDepCandidates == {SpecB, SpecAQuery}

(***************************************************************************)
(* Helpers of the install command.                                         *)
(***************************************************************************)
\* isImportOfPackage: importUrl is packageName or starts with packageName + "/"
isImportOfPackage(importUrl, packageName) ==
  \/ packageName = importUrl
  \/ StartsWith(importUrl, packageName \o <<"/">>)

\* getWebDependencyName: "x.js" -> "xjs" for a valid top-level package name,
\* else the .js/.mjs extension is stripped
getWebDependencyName(dep) ==
  IF validForNewPackages(dep)
  THEN IF EndsWith(dep, <<".", "j", "s">>)
       THEN DropLast(dep, 3) \o <<"j", "s">>
       ELSE dep
  ELSE IF EndsWith(dep, <<".", "m", "j", "s">>) THEN DropLast(dep, 4)
       ELSE IF EndsWith(dep, <<".", "j", "s">>) THEN DropLast(dep, 3)
       ELSE dep

\* the characters that are not valid in a file name
InvalidFileChars == {"?"}

\* sanitizePackageName: every character invalid in a file name is replaced
sanitizePackageName(name) ==
  [i \in 1..Len(name) |-> IF name[i] \in InvalidFileChars THEN "_" ELSE name[i]]

\* isPackageAliasEntry: the alias value is a bare specifier (a package), not a
\* path
isPackageAliasEntry(val) ==
  /\ val # <<>>
  /\ Head(val) \notin {".", "/"}

\* the alias entries (indices into config.alias) that match the specifier:
\* the alias key is the specifier or a package the specifier lies under
AliasMatches(alias, spec) ==
  {i \in 1..Len(alias) :
     \/ spec = alias[i].from
     \/ StartsWith(spec, alias[i].from \o <<"/">>)}

\* findMatchingAliasEntry: the first matching entry of config.alias, with its
\* kind; NoAlias when none matches
NoAlias == [found |-> FALSE, from |-> <<>>, to |-> <<>>, type |-> "none"]

findMatchingAliasEntry(alias, spec) ==
  LET hits == AliasMatches(alias, spec)
  IN  IF hits = {} THEN NoAlias
      ELSE LET i == CHOOSE k \in hits : \A j \in hits : k <= j
           IN  [found |-> TRUE, from |-> alias[i].from, to |-> alias[i].to,
                type |-> IF isPackageAliasEntry(alias[i].to) THEN "package"
                         ELSE "path"]

\* install, lines 353-356: a specifier matching a package alias becomes the
\* alias target
AliasRewrite(alias, specifier) ==
  LET aliasEntry == findMatchingAliasEntry(alias, specifier)
  IN  IF aliasEntry.found /\ aliasEntry.type = "package" THEN aliasEntry.to
      ELSE specifier

\* install, lines 347-350: the target is covered by no externalized package
NotExternal(externalPackages, specifier) ==
  ~ \E packageName \in externalPackages :
        isImportOfPackage(specifier, packageName)

\* install, lines 344-358: the set of specifiers to install: the targets not
\* covered by an externalized package, each rewritten through its alias
AllInstallSpecifiers(installTargets, externalPackages, alias) ==
  {AliasRewrite(alias, t) :
     t \in {d \in installTargets : NotExternal(externalPackages, d)}}

(***************************************************************************)
(* Maps (JavaScript objects used as dictionaries), URLs and file names.    *)
(***************************************************************************)
EmptyMap == <<>>

\* obj[key] = value
MapSet(m, key, value) == (key :> value) @@ m

\* the values of a map
MapValues(m) == {m[k] : k \in DOMAIN m}

\* `./${proxiedName}.js`
LocalJsUrl(name) == <<".", "/">> \o name \o <<".", "j", "s">>

\* `./${proxiedName}`
LocalAssetUrl(name) == <<".", "/">> \o name

\* the file the bundler emits for the entry named name: "[name].js" under the
\* output directory (outputOptions sets no entryFileNames)
EntryFileName(name) == name \o <<".", "j", "s">>

\* the file an import-map URL "./<path>" names under the output directory;
\* the URL itself when it is not of that form
UrlFile(url) ==
  IF StartsWith(url, <<".", "/">>) THEN SubSeq(url, 3, Len(url)) ELSE url

\* IMPORT_MAP_FILE
ImportMapFileName == <<"import-map.json">>

\* a file left in the output directory by an earlier install
StaleFile == <<"stale.js">>

\* the URL the remote CDN gives for a webDependencies key
CdnUrl(spec) == <<"https://cdn/">> \o spec

\* the absolute path the resolver finds for a specifier
ResolvedLoc(spec) == <<"/node_modules/">> \o spec

\* resolveTargetsFromRemoteCDN: the lockfile of the webDependencies keys
resolveTargetsFromRemoteCDN(keys) ==
  [present |-> TRUE, imports |-> [k \in keys |-> CdnUrl(k)]]

NoLockfile == [present |-> FALSE, imports |-> EmptyMap]

\* the specifier is never found in the lockfile
InLockfileNever(lock, installSpecifier) == FALSE

\* install, line 385: lockfile && lockfile.imports[installSpecifier]
InLockfile(lock, installSpecifier) ==
  /\ lock.present
  /\ installSpecifier \in DOMAIN lock.imports

\* resolveWebDependency, lines 172-180: the specifier is a direct reference to
\* a file inside a package
IsFileReference(dep) == extname(dep) # <<>> /\ ~ validForNewPackages(dep)

\* only the .js extension counts as JavaScript
isJSFileOnlyJs(dep) == extname(dep) = <<".", "j", "s">>

\* resolveWebDependency, line 173
isJSFile(dep) ==
  extname(dep) \in {<<".", "j", "s">>, <<".", "m", "j", "s">>, <<".", "c", "j", "s">>}

\* resolveWebDependency: the results the file system can give for dep: a JS
\* or ASSET location for a file reference, a JS location or IGNORE for a
\* package, or a thrown error
ResolveOutcomes(dep) ==
  IF IsFileReference(dep)
  THEN {IF isJSFile(dep) THEN "JS" ELSE "ASSET", "FAIL"}
  ELSE {"JS", "IGNORE", "FAIL"}

(***************************************************************************)
(* resolveWebDependency, lines 166-293: the values of manifest fields, the *)
(* manifests and the file system the resolver reads.                       *)
(***************************************************************************)
\* a JavaScript value: undefined, a string, an object with keys, or another
\* truthy value that is neither (true, a number)
Undefined == [t |-> "undefined", s |-> <<>>, o |-> <<>>]
Str(s) == [t |-> "string", s |-> s, o |-> <<>>]
EmptyStr == Str(<<>>)
Other == [t |-> "other", s |-> <<>>, o |-> <<>>]
Obj(o) == [t |-> "object", s |-> <<>>, o |-> o]

\* JavaScript truthiness: undefined and the empty string are falsy
Truthy(v) == v.t # "undefined" /\ ~ (v.t = "string" /\ v.s = <<>>)

\* a || b
JsOr(a, b) == IF Truthy(a) THEN a ELSE b

\* v?.[k]: undefined unless v is an object that has the key
Get(v, k) == IF v.t = "object" /\ k \in DOMAIN v.o THEN v.o[k] ELSE Undefined

\* the conditions of an export map entry
KeyBrowser == <<"browser">>
KeyImport == <<"import">>
KeyDefault == <<"default">>
KeyRequire == <<"require">>

\* the keys probed in a "browser" object, after the specifier itself
KeyIndexJs == <<".", "/", "index", ".", "j", "s">>
KeyIndex == <<".", "/", "index">>
KeyDotSlash == <<".", "/">>
KeyDot == <<".">>

\* "./<name>.js", a file a manifest names
FileNamed(name) == <<".", "/", name, ".", "j", "s">>

\* "index.js"
IndexJs == <<"index", ".", "j", "s">>

\* the location of the manifest of a package or package path
ManifestLoc(name) == ResolvedLoc(name) \o <<"/", "package.json">>

\* path.join(manifestLoc, '..', value): the manifest's directory, then value
\* normalised
pathJoinUp(manifestLoc, value) ==
  LET dir == DropLast(manifestLoc, 2)
      rel == IF StartsWith(value, <<".", "/">>)
             THEN SubSeq(value, 3, Len(value))
             ELSE IF value = <<".">> THEN <<>> ELSE value
  IN  IF rel = <<>> THEN dir ELSE dir \o <<"/">> \o rel

\* require.resolve of a path that exists: the file itself when it carries
\* an extension, the .js file of that name otherwise
NodeResolve(p) == IF extname(p) # <<>> THEN p ELSE p \o <<".", "j", "s">>

\* util's parsePackageImportSpecifier: [packageName, packageEntrypoint], split
\* at the first "/" (the second of a scoped name)
parsePackageImportSpecifier(imp) ==
  LET slashes == {i \in 1..Len(imp) : imp[i] = "/"}
      after(n) == {i \in slashes : i > n}
      first == IF slashes = {} THEN 0
               ELSE CHOOSE i \in slashes : \A j \in slashes : i <= j
      cut == IF imp # <<>> /\ Head(imp) = "@" /\ first # 0
             THEN IF after(first) = {} THEN 0
                  ELSE CHOOSE i \in after(first) : \A j \in after(first) : i <= j
             ELSE first
  IN  IF cut = 0 THEN <<imp, <<>>>>
      ELSE <<SubSeq(imp, 1, cut - 1), SubSeq(imp, cut + 1, Len(imp))>>

\* util's resolveDependencyManifest found no package.json
NoManifest ==
  [found |-> FALSE, reserved |-> FALSE, exports |-> Undefined,
   browserModule |-> Undefined, module |-> Undefined,
   mainEsnext |-> Undefined, browser |-> Undefined, main |-> Undefined,
   types |-> FALSE]

\* what resolveWebDependency gives: a location or a thrown error
NoLoc == <<>>
Returned(type, loc) ==
  [kind |-> "returned", type |-> type, loc |-> loc, error |-> "none"]
Thrown(error) ==
  [kind |-> "thrown", type |-> "none", loc |-> NoLoc, error |-> error]
NoResolution ==
  [kind |-> "none", type |-> "none", loc |-> NoLoc, error |-> "none"]

\* require.resolve(p): the resolved file, or the MODULE_NOT_FOUND error
requireResolve(type, p, exists) ==
  IF exists THEN Returned(type, NodeResolve(p)) ELSE Thrown("MODULE_NOT_FOUND")

\* lines 172-180: a direct file reference
resolveFileReference(dep, exists) ==
  requireResolve(IF isJSFile(dep) THEN "JS" ELSE "ASSET", ResolvedLoc(dep),
                 exists)

\* the export-map step is taken only for a key the export map has
ExportMapAppliesKeyed(packageEntrypoint, manifest) ==
  /\ packageEntrypoint # <<>>
  /\ manifest.found
  /\ Truthy(manifest.exports)
  /\ Truthy(Get(manifest.exports, <<".", "/">> \o packageEntrypoint))

\* lines 184-189: packageEntrypoint && packageManifestLoc && packageManifest
\* && packageManifest.exports
ExportMapApplies(packageEntrypoint, manifest) ==
  /\ packageEntrypoint # <<>>
  /\ manifest.found
  /\ Truthy(manifest.exports)

\* the import condition is preferred to the browser condition
exportMapValueImportFirst(exportMapEntry) ==
  JsOr(Get(exportMapEntry, KeyImport),
       JsOr(Get(exportMapEntry, KeyBrowser),
            JsOr(Get(exportMapEntry, KeyDefault),
                 JsOr(Get(exportMapEntry, KeyRequire), exportMapEntry))))

\* lines 191-196: browser || import || default || require || the entry
exportMapValue(exportMapEntry) ==
  JsOr(Get(exportMapEntry, KeyBrowser),
       JsOr(Get(exportMapEntry, KeyImport),
            JsOr(Get(exportMapEntry, KeyDefault),
                 JsOr(Get(exportMapEntry, KeyRequire), exportMapEntry))))

\* lines 190-207: the export-map step
resolveExportMap(packageName, packageEntrypoint, manifest) ==
  LET exportMapEntry == Get(manifest.exports, <<".", "/">> \o packageEntrypoint)
      value == exportMapValue(exportMapEntry)
  IN  IF value.t # "string"
      THEN Thrown("exports")
      ELSE Returned("JS", pathJoinUp(ManifestLoc(packageName), value.s))

\* lines 256-263: the keys probed in an entrypoint object
probeEntrypoint(entrypoint, dep) ==
  JsOr(Get(entrypoint, dep),
       JsOr(Get(entrypoint, KeyIndexJs),
            JsOr(Get(entrypoint, KeyIndex),
                 JsOr(Get(entrypoint, KeyDotSlash), Get(entrypoint, KeyDot)))))

\* the browser field is preferred to the module fields
foundEntrypointBrowserFirst(dep, depManifest) ==
  LET first == JsOr(depManifest.browser,
                    JsOr(depManifest.browserModule,
                         JsOr(depManifest.module, depManifest.mainEsnext)))
      probed == IF first.t = "object" THEN probeEntrypoint(first, dep)
                ELSE first
  IN  IF ~ Truthy(probed) THEN depManifest.main ELSE probed

\* lines 248-267: browser:module || module || main:esnext || browser, an
\* object probed, main when nothing was found
foundEntrypoint(dep, depManifest) ==
  LET first == JsOr(depManifest.browserModule,
                    JsOr(depManifest.module,
                         JsOr(depManifest.mainEsnext, depManifest.browser)))
      probed == IF first.t = "object" THEN probeEntrypoint(first, dep)
                ELSE first
  IN  IF ~ Truthy(probed) THEN depManifest.main ELSE probed

\* a package with types is ignored whenever its entry does not resolve
resolveFromManifestIgnoreTyped(dep, depManifest, exists) ==
  IF ~ depManifest.found
  THEN IF exists THEN requireResolve("JS", ResolvedLoc(dep), exists)
       ELSE Thrown("notfound")
  ELSE IF depManifest.reserved THEN Thrown("react")
  ELSE LET found == foundEntrypoint(dep, depManifest)
           isImplicitEntrypoint == ~ Truthy(found)
           entry == IF isImplicitEntrypoint THEN Str(IndexJs) ELSE found
       IN  IF entry.t # "string" THEN Thrown("entrypoint")
           ELSE IF exists
           THEN requireResolve("JS", pathJoinUp(ManifestLoc(dep), entry.s),
                               exists)
           ELSE IF depManifest.types
           THEN Returned("IGNORE", NoLoc)
           ELSE Thrown("MODULE_NOT_FOUND")

\* lines 213-292: the manifest of the specifier itself, and the raw fallback
resolveFromManifest(dep, depManifest, exists) ==
  IF ~ depManifest.found
  THEN IF exists THEN requireResolve("JS", ResolvedLoc(dep), exists)
       ELSE Thrown("notfound")
  ELSE IF depManifest.reserved THEN Thrown("react")
  ELSE LET found == foundEntrypoint(dep, depManifest)
           isImplicitEntrypoint == ~ Truthy(found)
           entry == IF isImplicitEntrypoint THEN Str(IndexJs) ELSE found
       IN  IF entry.t # "string" THEN Thrown("entrypoint")
           ELSE IF exists
           THEN requireResolve("JS", pathJoinUp(ManifestLoc(dep), entry.s),
                               exists)
           ELSE IF isImplicitEntrypoint /\ depManifest.types
           THEN Returned("IGNORE", NoLoc)
           ELSE Thrown("MODULE_NOT_FOUND")

\* resolveWebDependency, lines 166-293
resolveWebDependency(dep, packageManifest, depManifest, exists) ==
  LET parsed == parsePackageImportSpecifier(dep)
      packageName == parsed[1]
      packageEntrypoint == parsed[2]
  IN  IF IsFileReference(dep) THEN resolveFileReference(dep, exists)
      ELSE IF ExportMapApplies(packageEntrypoint, packageManifest)
      THEN resolveExportMap(packageName, packageEntrypoint, packageManifest)
      ELSE resolveFromManifest(dep, depManifest, exists)

\* the specifiers given to the resolver
ResolveDeps ==
  {SpecA, SpecADeep, SpecADotJs, SpecBFileJs, SpecBFileMjs, SpecBFileCss}

\* the values of one condition of an export map entry
ConditionValues(name) == {Undefined, Str(FileNamed(name)), EmptyStr, Other}

\* export map entries: a string, or an object of conditions
ExportMapEntries ==
  {Str(FileNamed("e"))} \cup
  {Obj((KeyBrowser :> b) @@ (KeyImport :> i) @@ (KeyDefault :> d)
       @@ (KeyRequire :> r)) :
     b \in ConditionValues("br"), i \in ConditionValues("im"),
     d \in ConditionValues("de"), r \in ConditionValues("re")}

\* the keys an export map may have: "./x", "./x.css", "./y"
ExportKeys == {<<".", "/", "x">>, <<".", "/", "x", ".", "c", "s", "s">>,
               <<".", "/", "y">>}

\* the exports field: absent, a string, an empty object, one key
ExportsValues ==
  {Undefined, Str(FileNamed("e")), Obj(<<>>)} \cup
  {Obj(k :> e) : k \in ExportKeys, e \in ExportMapEntries}

\* a manifest with nothing but a module field
PlainManifest == [NoManifest EXCEPT !.found = TRUE,
                                    !.module = Str(FileNamed("m"))]

\* the manifests of the package of the specifier
PackageManifests ==
  {NoManifest} \cup {[PlainManifest EXCEPT !.exports = e] : e \in ExportsValues}

\* "browser" objects: any of the probed keys, each naming its own file
ProbeKeys == {SpecA, KeyIndexJs, KeyIndex, KeyDotSlash, KeyDot}
ProbeFile(k) ==
  CASE k = SpecA -> FileNamed("p1")
    [] k = KeyIndexJs -> FileNamed("p2")
    [] k = KeyIndex -> FileNamed("p3")
    [] k = KeyDotSlash -> FileNamed("p4")
    [] OTHER -> FileNamed("p5")
BrowserObjects == {Obj([k \in K |-> Str(ProbeFile(k))]) : K \in SUBSET ProbeKeys}

\* the manifests at the path of the specifier
DepManifests ==
  {NoManifest, [PlainManifest EXCEPT !.reserved = TRUE]} \cup
  [found : {TRUE}, reserved : {FALSE}, exports : {Undefined},
   browserModule : {Undefined, Str(FileNamed("bm")), EmptyStr},
   module : {Undefined, Str(FileNamed("m"))},
   mainEsnext : {Undefined, Str(FileNamed("me"))},
   browser : {Undefined, Str(FileNamed("b"))} \cup BrowserObjects,
   main : {Undefined, Str(FileNamed("main")), Other},
   types : BOOLEAN]

(***************************************************************************)
(* install, lines 466-518: the plugins given to the bundler.               *)
(***************************************************************************)
\* an array entry that is not a plugin: false, null or undefined
NoPlugin == "false"

\* the plugins a user may declare, and entries that are no plugin
UserPluginEntries == {"user:1", "user:2", NoPlugin}

UserPluginLists ==
  UNION {[1..n -> UserPluginEntries] : n \in 0..MaxUserPlugins}

\* Array.prototype.filter(Boolean)
FilterBoolean(list) == SelectSeq(list, LAMBDA entry : entry # NoPlugin)

\* the user's plugins come first in the list
inputPluginsUserFirst(hasWebDependencies, userDefinedPlugins) ==
  FilterBoolean(
    userDefinedPlugins
    \o <<"replace",
         IF hasWebDependencies THEN "dependency-cache" ELSE NoPlugin,
         "alias", "catch-fetch", "node-resolve", "json", "css", "commonjs",
         "wrap-install-targets", "dependency-stats">>
    \o <<"catch-unresolved">>)

\* inputOptions.plugins, lines 466-518
inputPlugins(hasWebDependencies, userDefinedPlugins) ==
  FilterBoolean(
    <<"replace",
      IF hasWebDependencies THEN "dependency-cache" ELSE NoPlugin,
      "alias", "catch-fetch", "node-resolve", "json", "css", "commonjs",
      "wrap-install-targets", "dependency-stats">>
    \o userDefinedPlugins
    \o <<"catch-unresolved">>)

\* the inputs of a run
TargetSets == {T \in SUBSET Specifiers : Cardinality(T) <= MaxTargets}

AliasEntries ==
  {e \in [from : AliasFroms, to : AliasTos] : e.from # e.to}

AliasConfigs ==
  {q \in UNION {[1..n -> AliasEntries] : n \in 0..MaxAlias} :
     \A i, j \in 1..Len(q) : i # j => q[i].from # q[j].from}

WebDependencyConfigs ==
  {[present |-> FALSE, keys |-> {}]}
    \cup {[present |-> TRUE, keys |-> K] :
            K \in {W \in SUBSET WebDepCandidates : Cardinality(W) <= MaxWebDeps}}

\* the kinds of warning the bundler hands to onwarn
WarningKinds == {"CIRCULAR_DEPENDENCY", "UNRESOLVED", "OTHER"}

NoResult ==
  [kind |-> "none", success |-> FALSE, hasError |-> FALSE,
   importMap |-> [present |-> FALSE, imports |-> EmptyMap],
   newLockfile |-> NoLockfile, stats |-> FALSE]

(***************************************************************************)
(* The import scanner (scan-imports) and getInstallTargets.                *)
(***************************************************************************)
\* the characters \w matches, of those used
WordChars == {"_", "a", "b", "c", "j", "l", "m", "n", "q", "s", "x"}

\* BARE_SPECIFIER_REGEX, /^[@\w](?!.*(:\/\/))/: the specifier starts with a
\* word character or "@" and holds no "://"
IsBareSpecifier(specifier) ==
  /\ specifier # <<>>
  /\ Head(specifier) \in WordChars \cup {"@"}
  /\ ~ \E i \in 1..(Len(specifier) - 2) :
         /\ specifier[i] = ":"
         /\ specifier[i + 1] = "/"
         /\ specifier[i + 2] = "/"

\* null, for a specifier
NoSpecifier == <<>>

\* parseWebModuleSpecifier: a bare specifier is returned as it is; any other
\* specifier is a web module only when it holds "web_modules/", which no
\* specifier scanned here does
parseWebModuleSpecifier(specifier) ==
  IF specifier = NoSpecifier THEN NoSpecifier
  ELSE IF IsBareSpecifier(specifier) THEN specifier
  ELSE NoSpecifier

\* createInstallTarget
createInstallTarget(specifier, all) ==
  [specifier |-> specifier, all |-> all, default |-> FALSE,
   namespace |-> FALSE, named |-> <<>>]

\* null, for an install target
NoTarget == createInstallTarget(NoSpecifier, FALSE)

\* parseImportStatement: the install target of one import statement, given
\* what the statement's text shows: a dynamic import, a default binding, a
\* "*", and the named bindings
parseImportStatement(imp) ==
  LET webModuleSpecifier == parseWebModuleSpecifier(imp.specifier)
      isDynamicImport == imp.dynamic
      hasDefaultImport == ~ isDynamicImport /\ imp.hasDefault
      hasNamespaceImport == ~ isDynamicImport /\ imp.hasNamespace
      namedImports == imp.named
  IN  IF webModuleSpecifier = NoSpecifier THEN NoTarget
      ELSE [specifier |-> webModuleSpecifier,
            all |-> \/ isDynamicImport
                    \/ (/\ ~ hasDefaultImport
                        /\ ~ hasNamespaceImport
                        /\ namedImports = <<>>),
            default |-> hasDefaultImport,
            namespace |-> hasNamespaceImport,
            named |-> namedImports]

\* parseCodeForInstallTargets, lines 206-211: the targets of the statements,
\* without the nulls
parseCodeForInstallTargets(imports) ==
  LET parsed == [i \in 1..Len(imports) |-> parseImportStatement(imports[i])]
      isTruthy(t) == t # NoTarget
  IN  SelectSeq(parsed, isTruthy)

\* scanDepList: one target with all = true per entry (no entry is a glob)
scanDepList(depList) ==
  [i \in 1..Len(depList) |-> createInstallTarget(depList[i], TRUE)]

\* Array.prototype.sort with (impA, impB) =>
\* impA.specifier.localeCompare(impB.specifier): a stable sort by specifier
RECURSIVE SortBySpecifier(_)
SortBySpecifier(q) ==
  IF q = <<>> THEN <<>>
  ELSE LET sorted == SortBySpecifier(SubSeq(q, 1, Len(q) - 1))
           t == q[Len(q)]
           k == Cardinality({i \in 1..Len(sorted) :
                               ~ StrLess(t.specifier, sorted[i].specifier)})
       IN  SubSeq(sorted, 1, k) \o <<t>> \o SubSeq(sorted, k + 1, Len(sorted))

\* scanImportsFromFiles: the targets of all files, without those whose
\* specifier matches an alias that is not a package alias, sorted
scanImportsFromFiles(imports, alias) ==
  LET keep(target) ==
        LET aliasEntry == findMatchingAliasEntry(alias, target.specifier)
        IN  ~ aliasEntry.found \/ aliasEntry.type = "package"
  IN  SortBySpecifier(SelectSeq(parseCodeForInstallTargets(imports), keep))

\* the list with only the first target of each specifier
RECURSIVE KeepFirst(_)
KeepFirst(q) ==
  IF q = <<>> THEN <<>>
  ELSE LET front == SubSeq(q, 1, Len(q) - 1)
       IN  IF \E i \in 1..Len(front) : front[i].specifier = q[Len(q)].specifier
           THEN KeepFirst(front)
           ELSE Append(KeepFirst(front), q[Len(q)])

\* the targets of the three sources with later duplicates of a specifier
\* dropped
getInstallTargetsUnique(known, webDeps, imports, alias) ==
  KeepFirst((IF known.present THEN scanDepList(known.list) ELSE <<>>)
            \o (IF webDeps.present
                THEN scanDepList(SortStrings(webDeps.keys)) ELSE <<>>)
            \o scanImportsFromFiles(imports, alias))

\* getInstallTargets, lines 613-639: the targets of config.knownEntrypoints,
\* of the keys of config.webDependencies and of the scanned imports, pushed
\* in this order
getInstallTargets(known, webDeps, imports, alias) ==
  (IF known.present THEN scanDepList(known.list) ELSE <<>>)
    \o (IF webDeps.present
        THEN scanDepList(SortStrings(webDeps.keys)) ELSE <<>>)
    \o scanImportsFromFiles(imports, alias)

(***************************************************************************)
(* parseCodeForInstallTargets on one file, scan-imports.ts lines 53-66 and *)
(* 147-212.  The contents of a file are a sequence of statements; the      *)
(* lexer gives, for each import among them, its dynamic flag d and where   *)
(* it stands in the contents it was given.                                 *)
(***************************************************************************)
\* a statement: its kind, the text between the offsets s and e the lexer
\* reports for it, and what its text shows about bindings
Statement(kind, text, hasDefault) ==
  [kind |-> kind, text |-> text, hasDefault |-> hasDefault]

\* import x from 'a'
StaticA == Statement("static", SpecA, TRUE)
\* import './l'
StaticLocal == Statement("static", PathL, FALSE)
\* import('a')
DynamicQuoted == Statement("dynamic", <<"'", "a", "'">>, FALSE)
\* import(`a`)
DynamicTemplate == Statement("dynamic", <<"BACKTICK", "a", "BACKTICK">>, FALSE)
\* import(`a${b}`)
DynamicInterpolated ==
  Statement("dynamic", <<"BACKTICK", "a", "$", "{", "b", "}", "BACKTICK">>, FALSE)
\* import(a)
DynamicVariable == Statement("dynamic", <<"a">>, FALSE)
\* import.meta.url
MetaImport == Statement("meta", <<"import", ".", "meta">>, FALSE)
\* JSX or decorator syntax, which the lexer cannot parse
BrokenSyntax == Statement("broken", <<>>, FALSE)
\* any other code
OtherCode == Statement("code", <<>>, FALSE)

Statements ==
  {StaticA, StaticLocal, DynamicQuoted, DynamicTemplate, DynamicInterpolated,
   DynamicVariable, MetaImport, BrokenSyntax, OtherCode}

\* es-module-lexer's parse throws on syntax it cannot read
LexerThrows(contents) ==
  \E i \in 1..Len(contents) : contents[i].kind = "broken"

\* es-module-lexer's parse: one import per import statement, in order, with
\* d = -2 for import.meta, -1 for a static import and the (non-negative)
\* offset of a dynamic import
RECURSIVE LexerImportsFrom(_, _)
LexerImportsFrom(contents, i) ==
  IF i > Len(contents) THEN <<>>
  ELSE LET rest == LexerImportsFrom(contents, i + 1)
       IN  CASE contents[i].kind = "static" -> <<[d |-> -1, at |-> i]>> \o rest
             [] contents[i].kind = "meta" -> <<[d |-> -2, at |-> i]>> \o rest
             [] contents[i].kind = "dynamic" -> <<[d |-> i, at |-> i]>> \o rest
             [] OTHER -> rest

LexerImports(contents) == LexerImportsFrom(contents, 1)

\* text without the white space around it
RECURSIVE TrimSpace(_)
TrimSpace(text) ==
  IF text = <<>> THEN text
  ELSE IF Head(text) = " " THEN TrimSpace(Tail(text))
  ELSE IF text[Len(text)] = " " THEN TrimSpace(DropLast(text, 1))
  ELSE text

\* /^\s*['"](.*)['"]\s*$/m, line 64: the characters that open and close the
\* argument of a dynamic import
QuoteChars == {"'", "\""}

\* getWebModuleSpecifierFromCode, lines 53-66
getWebModuleSpecifierFromCode(code, imp) ==
  IF imp.d = -2 THEN NoSpecifier
  ELSE IF imp.d = -1 THEN code[imp.at].text
  ELSE LET importStatement == TrimSpace(code[imp.at].text)
       IN  IF /\ Len(importStatement) >= 2
              /\ Head(importStatement) \in QuoteChars
              /\ importStatement[Len(importStatement)] \in QuoteChars
           THEN SubSeq(importStatement, 2, Len(importStatement) - 1)
           ELSE NoSpecifier

\* parseImportStatement(code, imp), lines 113-145, on the text the offsets
\* of imp delimit in code
parseImportStatementIn(code, imp) ==
  parseImportStatement(
    [specifier |-> getWebModuleSpecifierFromCode(code, imp),
     dynamic |-> imp.d > -1,
     hasDefault |-> code[imp.at].hasDefault,
     hasNamespace |-> FALSE,
     named |-> <<>>])

\* ESM_IMPORT_REGEX matches the statement
MatchesImportRegex(statement) == statement.kind = "static"

\* ESM_DYNAMIC_IMPORT_REGEX, /import\((?:['"].+['"]|`[^$]+`)\)/: a dynamic
\* import of a quoted string, or of a template without "$"
MatchesDynamicImportRegex(statement) ==
  /\ statement.kind = "dynamic"
  /\ Len(statement.text) >= 3
  /\ \/ /\ Head(statement.text) \in {"'", "\""}
        /\ statement.text[Len(statement.text)] \in {"'", "\""}
     \/ /\ Head(statement.text) = "BACKTICK"
        /\ statement.text[Len(statement.text)] = "BACKTICK"
        /\ \A i \in 2..(Len(statement.text) - 1) : statement.text[i] # "$"

\* cleanCodeForParsing, lines 150-163: the static imports, then the dynamic
\* imports the regular expressions find
cleanCodeForParsing(code) ==
  SelectSeq(code, MatchesImportRegex)
    \o SelectSeq(code, MatchesDynamicImportRegex)

\* /[./]macro(\.js)?$/
IsMacro(specifier) ==
  \/ EndsWith(specifier, <<".", "macro">>)
  \/ EndsWith(specifier, <<"/", "macro">>)
  \/ EndsWith(specifier, <<".", "macro", ".", "j", "s">>)
  \/ EndsWith(specifier, <<"/", "macro", ".", "j", "s">>)

\* lines 206-211: the targets of the imports, read in contents
TargetsOfImports(contents, imports) ==
  LET targets == [i \in 1..Len(imports) |->
                    parseImportStatementIn(contents, imports[i])]
      keep(t) == t # NoTarget /\ ~ IsMacro(t.specifier)
  IN  SelectSeq(targets, keep)

\* the extensions whose files are not given to the lexer as they are
JsxExtensions == {<<".", "j", "s", "x">>, <<".", "t", "s", "x">>}

\* what parseCodeForInstallTargets gave: the targets, or the error thrown
\* after the file was named on the console; attempt2 tells that the second
\* attempt ran
ParseReturned(targets, attempt2) ==
  [kind |-> "returned", targets |-> targets, attempt2 |-> attempt2,
   named |-> <<>>]
ParseThrown(locOnDisk) ==
  [kind |-> "thrown", targets |-> <<>>, attempt2 |-> TRUE,
   named |-> locOnDisk]
NotParsed ==
  [kind |-> "none", targets |-> <<>>, attempt2 |-> FALSE, named |-> <<>>]

\* the second attempt reads the imports in the contents as they were
parseCodeOfFileStaleContents(locOnDisk, baseExt, contents, cleanThrows) ==
  IF baseExt \notin JsxExtensions /\ ~ LexerThrows(contents)
  THEN ParseReturned(TargetsOfImports(contents, LexerImports(contents)), FALSE)
  ELSE LET cleaned == cleanCodeForParsing(contents)
       IN  IF cleanThrows THEN ParseThrown(locOnDisk)
           ELSE ParseReturned(
                  TargetsOfImports(contents \o <<OtherCode>>,
                                   LexerImports(cleaned)), TRUE)

\* parseCodeForInstallTargets, lines 177-212
parseCodeOfFile(locOnDisk, baseExt, contents, cleanThrows) ==
  IF baseExt \notin JsxExtensions /\ ~ LexerThrows(contents)
  THEN ParseReturned(TargetsOfImports(contents, LexerImports(contents)), FALSE)
  ELSE LET cleaned == cleanCodeForParsing(contents)
       IN  IF cleanThrows THEN ParseThrown(locOnDisk)
           ELSE ParseReturned(TargetsOfImports(cleaned, LexerImports(cleaned)),
                              TRUE)

\* the files given to parseCodeForInstallTargets; cleanThrows: the lexer
\* throws on what cleanCodeForParsing extracted
NoFile ==
  [locOnDisk |-> <<>>, baseExt |-> <<>>, contents |-> <<>>,
   cleanThrows |-> FALSE]

SourceFiles ==
  {[locOnDisk |-> <<"f">> \o ext, baseExt |-> ext, contents |-> c,
    cleanThrows |-> t] :
     ext \in {<<".", "j", "s">>} \cup JsxExtensions,
     c \in UNION {[1..n -> Statements] : n \in 0..MaxItems},
     t \in BOOLEAN}

\* the import statements the files are drawn from: a dynamic import, a
\* default import, a namespace import or an import of one named binding
ImportStatements ==
  {imp \in [specifier : {SpecA, SpecB, PathL}, dynamic : BOOLEAN,
            hasDefault : BOOLEAN, hasNamespace : BOOLEAN,
            named : {<<>>, <<"n">>}] :
     Cardinality({f \in {"dynamic", "hasDefault", "hasNamespace", "named"} :
                    CASE f = "dynamic" -> imp.dynamic
                      [] f = "hasDefault" -> imp.hasDefault
                      [] f = "hasNamespace" -> imp.hasNamespace
                      [] OTHER -> imp.named # <<>>}) = 1}

ImportLists ==
  UNION {[1..n -> ImportStatements] : n \in 0..MaxImports}

\* no known entry points
NoEntrypoints == [present |-> FALSE, list |-> <<>>]

\* the values of config.knownEntrypoints
KnownEntrypointConfigs ==
  {NoEntrypoints}
    \cup {[present |-> TRUE, list |-> q] :
            q \in UNION {[1..n -> {SpecA, SpecB}] : n \in 0..MaxKnown}}

(***************************************************************************)
(* State.                                                                  *)
(***************************************************************************)
VARIABLES
  pc,                    \* position of the run
  installTargets,        \* run's installTargets (their specifiers)
  externalPackages,      \* config.installOptions.externalPackage
  alias,                 \* config.alias, in key order
  webDependencies,       \* config.webDependencies
  nodeModulesInstalled,  \* a node_modules directory (or pnp) exists
  lockfile,              \* run's newLockfile, the lockfile given to install
  todo,                  \* allInstallSpecifiers still to be iterated
  installEntrypoints,    \* targetName -> location: the bundler's input
  assetEntrypoints,      \* targetName -> location of the asset
  importMap,             \* importMap.imports
  installReturn,         \* how install ended
  installResults,        \* module-level list of [name, result code]
  spinnerHasError,       \* module-level flag set by defaultLogError
  dependencyStats,       \* module-level stats, set by the stats plugin
  isCircularImportFound, \* install's flag for circular-import warnings
  warnings,              \* warnings handed to onwarn so far
  circularLogs,          \* circular-dependency warnings reported
  sinkWarnings,          \* warnings passed on to the default sink
  resolved,              \* specifier -> what resolveWebDependency gave for it
  failedIn,              \* the step that failed, "none" when none did
  errFile,               \* the bundler's error carried a file location
  unresolvedSeen,        \* the unresolved catcher reported a module id
  destFiles,             \* files in the output directory
  destRemoved,           \* rimraf of the output directory happened in this run
  importMapFile,         \* content of the import map file in the directory
  result,                \* what run gave its caller
  knownEntrypoints,      \* config.knownEntrypoints
  scannedImports,        \* the import statements in the project's files
  installTargetList,     \* the list getInstallTargets returned
  scanned,               \* the project's files have been scanned
  exitCode,              \* how the command invocation ended
  invocations,           \* command invocations started in this process
  savedLockfile,         \* content of the lock file written by command
  leftHasError,          \* spinnerHasError as the earlier invocation left it
  dep,                   \* the specifier given to resolveWebDependency
  packageManifest,       \* the manifest of the specifier's package
  depManifest,           \* the manifest at the specifier's path
  fileExists,            \* node's lookup finds the file asked for
  resolution,            \* what resolveWebDependency gave
  file,                  \* the file given to parseCodeForInstallTargets
  parsed,                \* what parseCodeForInstallTargets gave
  userPlugins,           \* config.installOptions.rollup.plugins
  plugins,               \* inputOptions.plugins, as given to the bundler
  circularSeen           \* CIRCULAR_DEPENDENCY warnings handed to onwarn

vars ==
  <<pc, installTargets, externalPackages, alias, webDependencies,
    nodeModulesInstalled, lockfile, todo, installEntrypoints,
    assetEntrypoints, importMap, installReturn, installResults,
    spinnerHasError, dependencyStats, isCircularImportFound, warnings,
    circularLogs, sinkWarnings, resolved, failedIn, errFile, unresolvedSeen,
    destFiles, destRemoved, importMapFile, result, knownEntrypoints,
    scannedImports, installTargetList, scanned, exitCode, invocations,
    savedLockfile, leftHasError, dep, packageManifest, depManifest,
    fileExists, resolution, file, parsed, userPlugins, plugins,
    circularSeen>>

configVars ==
  <<installTargets, externalPackages, alias, webDependencies,
    nodeModulesInstalled>>

installLocals ==
  <<todo, installEntrypoints, assetEntrypoints, importMap, resolved>>

warnVars ==
  <<isCircularImportFound, warnings, circularLogs, sinkWarnings,
    unresolvedSeen, circularSeen>>

failVars == <<failedIn, errFile>>

diskVars == <<destFiles, destRemoved, importMapFile>>

scanVars == <<knownEntrypoints, scannedImports, installTargetList, scanned>>

commandVars == <<exitCode, invocations, savedLockfile, leftHasError>>

resolverVars == <<dep, packageManifest, depManifest, fileExists, resolution>>

\* what run and install leave alone: the state of their callers, and of the
\* resolver called alone
parseVars == <<file, parsed>>

bundlerVars == <<userPlugins, plugins>>

otherVars == <<scanVars, commandVars, resolverVars, parseVars, bundlerVars>>

\* the user declares no plugin, and no plugin list was built yet
NoUserPlugins ==
  /\ userPlugins = <<>>
  /\ plugins = <<>>

\* parseCodeForInstallTargets is not called alone
ParseIdle ==
  /\ file = NoFile
  /\ parsed = NotParsed

\* resolveWebDependency is not called alone
ResolverIdle ==
  /\ dep = <<>>
  /\ packageManifest = NoManifest
  /\ depManifest = NoManifest
  /\ fileExists = FALSE
  /\ resolution = NoResolution

\* getInstallTargets has not been called
ScanIdle ==
  /\ knownEntrypoints = NoEntrypoints
  /\ scannedImports = <<>>
  /\ installTargetList = <<>>
  /\ scanned = FALSE

\* run is called directly, not by command
CommandIdle ==
  /\ exitCode = "none"
  /\ invocations = 0
  /\ savedLockfile = NoLockfile
  /\ leftHasError = FALSE

Init ==
  /\ pc = "run"
  /\ installTargets \in TargetSets
  /\ externalPackages \in SUBSET ExternalCandidates
  /\ alias \in AliasConfigs
  /\ webDependencies \in WebDependencyConfigs
  \* install reads nodeModulesInstalled only when there are no webDependencies
  /\ nodeModulesInstalled \in (IF webDependencies.present THEN {TRUE}
                               ELSE BOOLEAN)
  /\ lockfile = NoLockfile
  /\ todo = <<>>
  /\ installEntrypoints = EmptyMap
  /\ assetEntrypoints = EmptyMap
  /\ importMap = EmptyMap
  /\ installReturn = "none"
  /\ installResults = <<>>
  /\ spinnerHasError = FALSE
  /\ dependencyStats = FALSE
  /\ isCircularImportFound = FALSE
  /\ warnings = 0
  /\ circularLogs = 0
  /\ circularSeen = 0
  /\ sinkWarnings = 0
  /\ resolved = EmptyMap
  /\ failedIn = "none"
  /\ errFile = FALSE
  /\ unresolvedSeen = FALSE
  \* the output directory holds what an earlier install left in it
  /\ destFiles = {StaleFile}
  /\ destRemoved = FALSE
  /\ importMapFile = [present |-> FALSE, imports |-> EmptyMap]
  /\ result = NoResult
  /\ ScanIdle
  /\ CommandIdle
  /\ ResolverIdle
  /\ ParseIdle
  /\ NoUserPlugins

(***************************************************************************)
(* run(), lines 681-755, and install(), lines 311-597.                     *)
(***************************************************************************)
\* defaultLogError, lines 87-94
defaultLogError == spinnerHasError' = TRUE

\* run starts without resetting the error flag
RunStartKeepsFlag ==
  /\ pc = "run"
  /\ installResults' = <<>>
  /\ dependencyStats' = FALSE
  /\ IF installTargets = {}
     THEN /\ result' = [kind |-> "returned", success |-> TRUE,
                        hasError |-> FALSE,
                        importMap |-> [present |-> TRUE, imports |-> EmptyMap],
                        newLockfile |-> NoLockfile, stats |-> FALSE]
          /\ pc' = "done"
     ELSE /\ result' = result
          /\ pc' = "cdn"
  /\ UNCHANGED <<configVars, otherVars, spinnerHasError, lockfile, todo,
                 installEntrypoints, assetEntrypoints, importMap, resolved,
                 installReturn, isCircularImportFound, warnings, circularLogs,
                 circularSeen,
                 sinkWarnings, unresolvedSeen, failedIn, errFile, destFiles,
                 destRemoved, importMapFile>>

\* run, lines 691-704: the module-level state is reset; an empty target list
\* returns success at once
RunStart ==
  /\ pc = "run"
  /\ installResults' = <<>>
  /\ dependencyStats' = FALSE
  /\ spinnerHasError' = FALSE
  /\ IF installTargets = {}
     THEN /\ result' = [kind |-> "returned", success |-> TRUE,
                        hasError |-> FALSE,
                        importMap |-> [present |-> TRUE, imports |-> EmptyMap],
                        newLockfile |-> NoLockfile, stats |-> FALSE]
          /\ pc' = "done"
     ELSE /\ result' = result
          /\ pc' = "cdn"
  /\ UNCHANGED <<configVars, otherVars, lockfile, installLocals, installReturn,
                 warnVars, failVars, diskVars>>

\* run, lines 706-714: the remote CDN resolves the webDependencies
ResolveRemoteOk ==
  /\ pc = "cdn"
  /\ lockfile' = IF webDependencies.present /\ webDependencies.keys # {}
                 THEN resolveTargetsFromRemoteCDN(webDependencies.keys)
                 ELSE NoLockfile
  /\ pc' = "rimraf"
  /\ UNCHANGED <<configVars, otherVars, installLocals, installReturn, installResults,
                 spinnerHasError, dependencyStats, warnVars, failVars,
                 diskVars, result>>

\* run, lines 710-713: the remote CDN fails: the error is logged and the
\* process exits
ResolveRemoteFail ==
  /\ pc = "cdn"
  /\ webDependencies.present /\ webDependencies.keys # {}
  /\ defaultLogError
  /\ failedIn' = "remote"
  /\ result' = [NoResult EXCEPT !.kind = "exited"]
  /\ pc' = "done"
  /\ UNCHANGED <<configVars, otherVars, lockfile, installLocals, installReturn,
                 installResults, dependencyStats, warnVars, errFile, diskVars>>

\* the output directory is left as it is
RimrafSkipped(files) == files

\* rimraf.sync(dest): what is left of the output directory's files
RimrafDest(files) == {}

\* run, line 716
Rimraf ==
  /\ pc = "rimraf"
  /\ destFiles' = RimrafDest(destFiles)
  /\ importMapFile' = [present |-> FALSE, imports |-> EmptyMap]
  /\ destRemoved' = TRUE
  /\ pc' = "install"
  /\ UNCHANGED <<configVars, otherVars, lockfile, installLocals, installReturn,
                 installResults, spinnerHasError, dependencyStats, warnVars,
                 failVars, result>>

\* the node_modules directory is not looked for
NoNodeModulesIgnored(webDeps, nodeModules) == FALSE

\* install, line 340: !webDependencies && !process.versions.pnp &&
\* !nodeModulesInstalled
NoNodeModules(webDeps, nodeModules) == ~ webDeps.present /\ ~ nodeModules

\* install, lines 338-379: no node_modules and no webDependencies fails at
\* once; otherwise the install specifiers are computed and sorted
InstallStart ==
  /\ pc = "install"
  /\ IF NoNodeModules(webDependencies, nodeModulesInstalled)
     THEN /\ defaultLogError
          /\ installReturn' = "failed"
          /\ failedIn' = "config"
          /\ pc' = "ret"
          /\ todo' = todo
     ELSE /\ todo' = SortStrings(AllInstallSpecifiers(installTargets,
                                   externalPackages, alias))
          /\ pc' = "loop"
          /\ UNCHANGED <<spinnerHasError, installReturn, failedIn>>
  /\ UNCHANGED <<configVars, otherVars, lockfile, installEntrypoints, assetEntrypoints,
                 importMap, resolved, installResults, dependencyStats,
                 warnVars, errFile, diskVars, result>>

\* the import map with no alias key added
ExpandAliasesNone(installAlias, imports, installSpecifier, targetName) ==
  imports

\* install, lines 400-404: every alias key whose value is the install
\* specifier is added to the import map
ExpandAliases(installAlias, imports, installSpecifier, targetName) ==
  LET keys == {installAlias[i].from :
                 i \in {j \in 1..Len(installAlias) :
                          installAlias[j].to = installSpecifier}}
  IN  [k \in keys |-> LocalJsUrl(targetName)] @@ imports

\* the import-map URL of a lockfile-keyed specifier taken from the lockfile
LockedImportUrlFromLockfile(lock, installSpecifier, proxiedName) ==
  lock.imports[installSpecifier]

\* install, line 387: the import-map URL of a lockfile-keyed specifier
LockedImportUrl(lock, installSpecifier, proxiedName) ==
  LocalJsUrl(proxiedName)

\* install, lines 385-391: the specifier is keyed in the lockfile
LoopLockfile ==
  /\ pc = "loop"
  /\ todo # <<>>
  /\ LET installSpecifier == Head(todo)
         targetName == getWebDependencyName(installSpecifier)
         proxiedName == sanitizePackageName(targetName)
     IN  /\ InLockfile(lockfile, installSpecifier)
         /\ installEntrypoints' = MapSet(installEntrypoints, targetName,
                                         lockfile.imports[installSpecifier])
         /\ importMap' = MapSet(importMap, installSpecifier,
                                LockedImportUrl(lockfile, installSpecifier,
                                                proxiedName))
         /\ installResults' = Append(installResults, <<targetName, "SUCCESS">>)
  /\ todo' = Tail(todo)
  /\ UNCHANGED <<pc, configVars, otherVars, lockfile, assetEntrypoints, resolved,
                 installReturn, spinnerHasError, dependencyStats, warnVars,
                 failVars, diskVars, result>>

\* install, lines 392-414: the specifier is resolved to a JS file, an asset
\* or a types-only package
LoopResolve ==
  /\ pc = "loop"
  /\ todo # <<>>
  /\ LET installSpecifier == Head(todo)
         targetName == getWebDependencyName(installSpecifier)
         proxiedName == sanitizePackageName(targetName)
         targetLoc == ResolvedLoc(installSpecifier)
     IN  /\ ~ InLockfile(lockfile, installSpecifier)
         /\ \E targetType \in ResolveOutcomes(installSpecifier) \ {"FAIL"} :
              /\ resolved' = MapSet(resolved, installSpecifier, targetType)
              /\ CASE targetType = "JS" ->
                     /\ installEntrypoints' =
                          MapSet(installEntrypoints, targetName, targetLoc)
                     /\ importMap' =
                          ExpandAliases(alias,
                                        MapSet(importMap, installSpecifier,
                                               LocalJsUrl(proxiedName)),
                                        installSpecifier, targetName)
                     /\ installResults' =
                          Append(installResults, <<installSpecifier, "SUCCESS">>)
                     /\ UNCHANGED assetEntrypoints
                  [] targetType = "ASSET" ->
                     /\ assetEntrypoints' =
                          MapSet(assetEntrypoints, targetName, targetLoc)
                     /\ importMap' = MapSet(importMap, installSpecifier,
                                            LocalAssetUrl(proxiedName))
                     /\ installResults' =
                          Append(installResults, <<installSpecifier, "ASSET">>)
                     /\ UNCHANGED installEntrypoints
                  [] OTHER ->
                     UNCHANGED <<installEntrypoints, assetEntrypoints,
                                 importMap, installResults>>
  /\ todo' = Tail(todo)
  /\ UNCHANGED <<pc, configVars, otherVars, lockfile, installReturn, spinnerHasError,
                 dependencyStats, warnVars, failVars, diskVars, result>>

\* failures are skipped: the loop goes on to the next specifier
skipFailuresOn == TRUE

\* install, line 375: const skipFailures = false
skipFailures == FALSE

\* install, lines 415-429: resolveWebDependency throws: the failure is
\* recorded; unless failures are skipped it is logged and install returns
\* FAILED_INSTALL_RETURN
LoopResolveFail ==
  /\ pc = "loop"
  /\ todo # <<>>
  /\ LET installSpecifier == Head(todo)
     IN  /\ ~ InLockfile(lockfile, installSpecifier)
         /\ "FAIL" \in ResolveOutcomes(installSpecifier)
         /\ resolved' = MapSet(resolved, installSpecifier, "FAIL")
         /\ installResults' = Append(installResults, <<installSpecifier, "FAIL">>)
  /\ IF skipFailures
     THEN /\ todo' = Tail(todo)
          /\ UNCHANGED <<pc, spinnerHasError, installReturn, failedIn>>
     ELSE /\ defaultLogError
          /\ installReturn' = "failed"
          /\ failedIn' = "resolution"
          /\ pc' = "ret"
          /\ todo' = todo
  /\ UNCHANGED <<configVars, otherVars, lockfile, installEntrypoints,
                 assetEntrypoints, importMap, dependencyStats, warnVars,
                 errFile, diskVars, result>>

\* install, lines 431-518 and 559: after the loop: nothing to install returns
\* success at once; otherwise the bundler's options are built, and the
\* bundler runs when there is a JS entry point
LoopEnd ==
  /\ pc = "loop"
  /\ todo = <<>>
  /\ IF DOMAIN installEntrypoints = {} /\ DOMAIN assetEntrypoints = {}
     THEN /\ installReturn' = "success"
          /\ pc' = "ret"
          /\ plugins' = plugins
     ELSE /\ installReturn' = installReturn
          /\ plugins' = inputPlugins(webDependencies.present, userPlugins)
          /\ pc' = IF DOMAIN installEntrypoints # {} THEN "rollup"
                   ELSE "writemap"
  /\ UNCHANGED <<configVars, scanVars, commandVars, resolverVars, parseVars,
                 userPlugins, lockfile, installLocals, installResults,
                 spinnerHasError, dependencyStats, warnVars, failVars,
                 diskVars, result>>

\* an unresolved-import warning passed on to the default sink like any other
OnWarnUnresolvedAsWarning ==
  /\ sinkWarnings' = sinkWarnings + 1
  /\ UNCHANGED spinnerHasError

\* onwarn, lines 529-541: a warning of the unresolved catcher is logged as an
\* error
OnWarnUnresolved ==
  /\ defaultLogError
  /\ UNCHANGED sinkWarnings

\* every circular-dependency warning is reported
CircularLogsEvery(found, logs) == logs + 1

\* onwarn, lines 521-527: the number of circular-dependency warnings
\* reported, after one more is handed over
CircularLogs(found, logs) == IF found THEN logs ELSE logs + 1

\* install, lines 519-543 (onwarn): a bundler warning while rollup() builds,
\* one of at most limit warnings
OnWarnUpTo(limit) ==
  /\ pc = "rollup"
  /\ warnings < limit
  /\ warnings' = warnings + 1
  /\ \E code \in WarningKinds :
       CASE code = "CIRCULAR_DEPENDENCY" ->
              /\ isCircularImportFound' = TRUE
              /\ circularLogs' = CircularLogs(isCircularImportFound,
                                              circularLogs)
              /\ circularSeen' = circularSeen + 1
              /\ UNCHANGED <<spinnerHasError, sinkWarnings, unresolvedSeen>>
         [] code = "UNRESOLVED" ->
              /\ OnWarnUnresolved
              /\ unresolvedSeen' = TRUE
              /\ UNCHANGED <<isCircularImportFound, circularLogs,
                             circularSeen>>
         [] OTHER ->
              /\ sinkWarnings' = sinkWarnings + 1
              /\ UNCHANGED <<isCircularImportFound, circularLogs,
                             circularSeen, spinnerHasError, unresolvedSeen>>
  /\ UNCHANGED <<pc, configVars, otherVars, lockfile, installLocals, installReturn,
                 installResults, dependencyStats, failVars, diskVars, result>>

OnWarn == OnWarnUpTo(MaxWarnings)

\* a warning of a build that is followed warning by warning
OnWarnSeries == OnWarnUpTo(MaxSeries)

\* install, line 563: rollup(inputOptions) builds the bundle
RollupOk ==
  /\ pc = "rollup"
  /\ pc' = "write"
  /\ UNCHANGED <<configVars, otherVars, lockfile, installLocals, installReturn,
                 installResults, spinnerHasError, dependencyStats, warnVars,
                 failVars, diskVars, result>>

\* every bundler error is thrown on, with or without a file location
BundlerThrowsRethrowAll(hasFilePath) ==
  /\ installReturn' = "thrown"
  /\ UNCHANGED spinnerHasError

\* install, lines 567-585: the bundler throws.  With a file location
\* (err.loc.file or err.id) the error is logged and install returns
\* FAILED_INSTALL_RETURN; without one it is thrown on
BundlerThrows(hasFilePath) ==
  IF hasFilePath
  THEN /\ defaultLogError
       /\ installReturn' = "failed"
  ELSE /\ installReturn' = "thrown"
       /\ UNCHANGED spinnerHasError

RollupFail ==
  /\ pc = "rollup"
  /\ \E hasFilePath \in BOOLEAN :
       /\ BundlerThrows(hasFilePath)
       /\ errFile' = hasFilePath
  /\ failedIn' = "rollup"
  /\ pc' = "ret"
  /\ UNCHANGED <<configVars, otherVars, lockfile, installLocals, installResults,
                 dependencyStats, warnVars, diskVars, result>>

\* the files packageBundle.write(outputOptions) emits: one "[name].js" per
\* key of the input map
BundleFiles(entrypoints) == {EntryFileName(name) : name \in DOMAIN entrypoints}

\* install, line 566: the bundle is written; the stats plugin reports
BundleWriteOk ==
  /\ pc = "write"
  /\ destFiles' = destFiles \cup BundleFiles(installEntrypoints)
  /\ dependencyStats' = TRUE
  /\ pc' = "writemap"
  /\ UNCHANGED <<configVars, otherVars, lockfile, installLocals, installReturn,
                 installResults, spinnerHasError, warnVars, failVars,
                 destRemoved, importMapFile, result>>

\* install, lines 566-585: writing the bundle throws, before any file was
\* written or after the files were written
BundleWriteFail ==
  /\ pc = "write"
  /\ \E hasFilePath \in BOOLEAN :
       /\ BundlerThrows(hasFilePath)
       /\ errFile' = hasFilePath
  /\ \E written \in BOOLEAN :
       destFiles' = IF written
                    THEN destFiles \cup BundleFiles(installEntrypoints)
                    ELSE destFiles
  /\ failedIn' = "write"
  /\ pc' = "ret"
  /\ UNCHANGED <<configVars, otherVars, lockfile, installLocals, installResults,
                 dependencyStats, warnVars, destRemoved, importMapFile, result>>

\* an import map file written with no entries
WrittenImportMapEmpty(imports) == [present |-> TRUE, imports |-> EmptyMap]

\* install, line 588: the content of the import map file after
\* writeLockfile(path.join(destLoc, IMPORT_MAP_FILE), importMap)
WrittenImportMap(imports) == [present |-> TRUE, imports |-> imports]

\* install, line 588: the import map is written into the output directory
WriteImportMap ==
  /\ pc = "writemap"
  /\ importMapFile' = WrittenImportMap(importMap)
  /\ destFiles' = destFiles \cup {ImportMapFileName}
  /\ pc' = "assets"
  /\ UNCHANGED <<configVars, otherVars, lockfile, installLocals, installReturn,
                 installResults, spinnerHasError, dependencyStats, warnVars,
                 failVars, destRemoved, result>>

\* the files the asset copy creates
AssetFiles(assets) == {sanitizePackageName(name) : name \in DOMAIN assets}

\* install, lines 590-596: the assets are copied and install returns success
CopyAssets ==
  /\ pc = "assets"
  /\ destFiles' = destFiles \cup AssetFiles(assetEntrypoints)
  /\ installReturn' = "success"
  /\ pc' = "ret"
  /\ UNCHANGED <<configVars, otherVars, lockfile, installLocals, installResults,
                 spinnerHasError, dependencyStats, warnVars, failVars,
                 destRemoved, importMapFile, result>>

\* run, lines 726-735: an error thrown by install is thrown on by run
RunRethrow ==
  /\ pc = "ret"
  /\ installReturn = "thrown"
  /\ result' = [NoResult EXCEPT !.kind = "thrown"]
  /\ pc' = "done"
  /\ UNCHANGED <<configVars, otherVars, lockfile, installLocals, installReturn,
                 installResults, spinnerHasError, dependencyStats, warnVars,
                 failVars, diskVars>>

\* run, lines 737-754: the result of install becomes the result of run
RunReturn ==
  /\ pc = "ret"
  /\ installReturn \in {"success", "failed"}
  /\ result' = [kind |-> "returned",
                success |-> installReturn = "success",
                hasError |-> spinnerHasError,
                importMap |-> IF installReturn = "success"
                              THEN [present |-> TRUE, imports |-> importMap]
                              ELSE [present |-> FALSE, imports |-> EmptyMap],
                newLockfile |-> lockfile,
                stats |-> dependencyStats]
  /\ pc' = "done"
  /\ UNCHANGED <<configVars, otherVars, lockfile, installLocals, installReturn,
                 installResults, spinnerHasError, dependencyStats, warnVars,
                 failVars, diskVars>>

Next ==
  \/ RunStart
  \/ ResolveRemoteOk
  \/ ResolveRemoteFail
  \/ Rimraf
  \/ InstallStart
  \/ LoopLockfile
  \/ LoopResolve
  \/ LoopResolveFail
  \/ LoopEnd
  \/ OnWarn
  \/ RollupOk
  \/ RollupFail
  \/ BundleWriteOk
  \/ BundleWriteFail
  \/ WriteImportMap
  \/ CopyAssets
  \/ RunRethrow
  \/ RunReturn

Spec == Init /\ [][Next]_vars

(***************************************************************************)
(* getInstallTargets, lines 613-639, on its own.                           *)
(***************************************************************************)
\* the state of a process in which run has not started
FreshRun ==
  /\ lockfile = NoLockfile
  /\ todo = <<>>
  /\ installEntrypoints = EmptyMap
  /\ assetEntrypoints = EmptyMap
  /\ importMap = EmptyMap
  /\ installReturn = "none"
  /\ installResults = <<>>
  /\ spinnerHasError = FALSE
  /\ dependencyStats = FALSE
  /\ isCircularImportFound = FALSE
  /\ warnings = 0
  /\ circularLogs = 0
  /\ circularSeen = 0
  /\ sinkWarnings = 0
  /\ resolved = EmptyMap
  /\ failedIn = "none"
  /\ errFile = FALSE
  /\ unresolvedSeen = FALSE
  /\ destFiles = {StaleFile}
  /\ destRemoved = FALSE
  /\ importMapFile = [present |-> FALSE, imports |-> EmptyMap]
  /\ result = NoResult

InitTargets ==
  /\ pc = "getInstallTargets"
  /\ alias \in AliasConfigs
  /\ webDependencies \in WebDependencyConfigs
  /\ knownEntrypoints \in KnownEntrypointConfigs
  /\ scannedImports \in ImportLists
  /\ installTargets = {}
  /\ externalPackages = {}
  /\ nodeModulesInstalled = TRUE
  /\ installTargetList = <<>>
  /\ scanned = FALSE
  /\ CommandIdle
  /\ ResolverIdle
  /\ ParseIdle
  /\ NoUserPlugins
  /\ FreshRun

\* getInstallTargets, lines 613-639
GetInstallTargets ==
  /\ pc = "getInstallTargets"
  /\ installTargetList' = getInstallTargets(knownEntrypoints, webDependencies,
                                            scannedImports, alias)
  /\ scanned' = TRUE
  /\ pc' = "targets"
  /\ UNCHANGED <<configVars, resolverVars, parseVars, bundlerVars,
                 knownEntrypoints,
                 scannedImports, commandVars,
                 lockfile, installLocals, installReturn, installResults,
                 spinnerHasError, dependencyStats, warnVars, failVars,
                 diskVars, result>>

NextTargets == GetInstallTargets

SpecTargets == InitTargets /\ [][NextTargets]_vars

(***************************************************************************)
(* command, lines 645-663: getInstallTargets, then run, then the exit      *)
(* status; and command called again in the same process.                   *)
(***************************************************************************)
\* the configurations and projects command is invoked with
CommandKnownEntrypoints ==
  {NoEntrypoints, [present |-> TRUE, list |-> <<SpecA>>],
   [present |-> TRUE, list |-> <<SpecBFileCss>>]}

CommandImports ==
  {<<>>,
   <<[specifier |-> SpecA, dynamic |-> FALSE, hasDefault |-> TRUE,
      hasNamespace |-> FALSE, named |-> <<>>]>>}

CommandWebDependencies ==
  {[present |-> FALSE, keys |-> {}], [present |-> TRUE, keys |-> {SpecB}]}

CommandAliases == {<<>>, <<[from |-> SpecA, to |-> PathL]>>}

\* the specifiers of the targets, as run and install read them
TargetSpecifiers(targets) ==
  {targets[i].specifier : i \in 1..Len(targets)}

InitCommand ==
  /\ pc = "getInstallTargets"
  /\ alias \in CommandAliases
  /\ webDependencies \in CommandWebDependencies
  /\ knownEntrypoints \in CommandKnownEntrypoints
  /\ scannedImports \in CommandImports
  /\ nodeModulesInstalled \in (IF webDependencies.present THEN {TRUE}
                               ELSE BOOLEAN)
  /\ installTargets = {}
  /\ externalPackages = {}
  /\ installTargetList = <<>>
  /\ scanned = FALSE
  /\ exitCode = "none"
  /\ invocations = 1
  /\ savedLockfile = NoLockfile
  /\ leftHasError = FALSE
  /\ ResolverIdle
  /\ ParseIdle
  /\ NoUserPlugins
  /\ FreshRun

\* command, lines 648-652: with no install target an error is logged and
\* command returns; otherwise run is called with the targets
CommandCheckTargets ==
  /\ pc = "targets"
  /\ IF installTargetList = <<>>
     THEN /\ defaultLogError
          /\ exitCode' = "returned"
          /\ pc' = "exit"
          /\ installTargets' = installTargets
     ELSE /\ installTargets' = TargetSpecifiers(installTargetList)
          /\ pc' = "run"
          /\ UNCHANGED <<spinnerHasError, exitCode>>
  /\ UNCHANGED <<externalPackages, alias, webDependencies,
                 nodeModulesInstalled, scanVars, resolverVars, parseVars,
                 bundlerVars,
                 invocations, savedLockfile,
                 leftHasError, lockfile, installLocals, installReturn, installResults,
                 dependencyStats, warnVars, failVars, diskVars, result>>

\* the process exits with status 1 only when the run did not succeed
ExitsWithErrorOnFailure(finalResult) == ~ finalResult.success

\* command, line 659: !finalResult.success || finalResult.hasError
ExitsWithError(finalResult) ==
  ~ finalResult.success \/ finalResult.hasError

\* command, lines 652-662: after run: the new lockfile is written, and the
\* process exits with status 1 when the run failed or logged an error.  A
\* run that threw makes command throw; a run that ended the process has
\* ended it with status 1 (line 712)
CommandEnd ==
  /\ pc = "done"
  /\ CASE result.kind = "returned" ->
            /\ savedLockfile' = IF result.newLockfile.present
                                THEN result.newLockfile ELSE savedLockfile
            /\ exitCode' = IF ExitsWithError(result) THEN "exit1"
                           ELSE "returned"
       [] result.kind = "thrown" ->
            /\ exitCode' = "thrown"
            /\ UNCHANGED savedLockfile
       [] OTHER ->
            /\ exitCode' = "exit1"
            /\ UNCHANGED savedLockfile
  /\ pc' = "exit"
  /\ UNCHANGED <<configVars, scanVars, resolverVars, parseVars, bundlerVars,
                 invocations,
                 leftHasError, lockfile,
                 installLocals, installReturn, installResults, spinnerHasError,
                 dependencyStats, warnVars, failVars, diskVars, result>>

\* command is called again in the same process, which the earlier
\* invocation did not end: the module-level state and the files on disk are
\* what the earlier invocation left, everything else is new
NextInvocation ==
  /\ pc = "exit"
  /\ exitCode \in {"returned", "thrown"}
  /\ invocations < MaxInvocations
  /\ invocations' = invocations + 1
  /\ leftHasError' = spinnerHasError
  /\ pc' = "getInstallTargets"
  /\ alias' \in CommandAliases
  /\ webDependencies' \in CommandWebDependencies
  /\ knownEntrypoints' \in CommandKnownEntrypoints
  /\ scannedImports' \in CommandImports
  /\ nodeModulesInstalled' \in (IF webDependencies'.present THEN {TRUE}
                                ELSE BOOLEAN)
  /\ installTargets' = {}
  /\ installTargetList' = <<>>
  /\ scanned' = FALSE
  /\ exitCode' = "none"
  /\ lockfile' = NoLockfile
  /\ todo' = <<>>
  /\ installEntrypoints' = EmptyMap
  /\ assetEntrypoints' = EmptyMap
  /\ importMap' = EmptyMap
  /\ resolved' = EmptyMap
  /\ installReturn' = "none"
  /\ isCircularImportFound' = FALSE
  /\ warnings' = 0
  /\ circularLogs' = 0
  /\ circularSeen' = 0
  /\ plugins' = <<>>
  /\ sinkWarnings' = 0
  /\ unresolvedSeen' = FALSE
  /\ failedIn' = "none"
  /\ errFile' = FALSE
  /\ destRemoved' = FALSE
  /\ result' = NoResult
  /\ UNCHANGED <<resolverVars, parseVars, userPlugins, externalPackages,
                 savedLockfile,
                 installResults,
                 spinnerHasError, dependencyStats, destFiles, importMapFile>>

NextCommand ==
  \/ GetInstallTargets
  \/ CommandCheckTargets
  \/ RunStart
  \/ ResolveRemoteOk
  \/ ResolveRemoteFail
  \/ Rimraf
  \/ InstallStart
  \/ LoopLockfile
  \/ LoopResolve
  \/ LoopResolveFail
  \/ LoopEnd
  \/ OnWarn
  \/ RollupOk
  \/ RollupFail
  \/ BundleWriteOk
  \/ BundleWriteFail
  \/ WriteImportMap
  \/ CopyAssets
  \/ RunRethrow
  \/ RunReturn
  \/ CommandEnd
  \/ NextInvocation

SpecCommand == InitCommand /\ [][NextCommand]_vars

(***************************************************************************)
(* resolveWebDependency called on one specifier, lines 166-293.            *)
(***************************************************************************)
InitResolve ==
  /\ pc = "resolveWebDependency"
  /\ dep \in ResolveDeps
  /\ fileExists \in BOOLEAN
  \* either the manifest of the package varies, or the manifest at the path
  /\ \/ /\ packageManifest \in PackageManifests
        /\ depManifest \in {NoManifest, PlainManifest}
     \/ /\ packageManifest \in {NoManifest, PlainManifest}
        /\ depManifest \in DepManifests
  /\ resolution = NoResolution
  /\ installTargets = {}
  /\ externalPackages = {}
  /\ alias = <<>>
  /\ webDependencies = [present |-> FALSE, keys |-> {}]
  /\ nodeModulesInstalled = TRUE
  /\ ScanIdle
  /\ CommandIdle
  /\ ParseIdle
  /\ NoUserPlugins
  /\ FreshRun

\* resolveWebDependency, lines 166-293
ResolveWebDependency ==
  /\ pc = "resolveWebDependency"
  /\ resolution' = resolveWebDependency(dep, packageManifest, depManifest,
                                        fileExists)
  /\ pc' = "resolved"
  /\ UNCHANGED <<configVars, scanVars, commandVars, parseVars, bundlerVars,
                 dep,
                 packageManifest, depManifest, fileExists, lockfile,
                 installLocals,
                 installReturn, installResults, spinnerHasError,
                 dependencyStats, warnVars, failVars, diskVars, result>>

\* install, lines 392-429, for the one specifier: what the loop does with
\* what resolveWebDependency gave
InstallResolved ==
  /\ pc = "resolved"
  /\ LET installSpecifier == dep
         targetName == getWebDependencyName(installSpecifier)
         proxiedName == sanitizePackageName(targetName)
     IN  IF resolution.kind = "thrown"
         THEN /\ resolved' = MapSet(resolved, installSpecifier, "FAIL")
              /\ installResults' =
                   Append(installResults, <<installSpecifier, "FAIL">>)
              /\ IF skipFailures
                 THEN /\ pc' = "loop"
                      /\ UNCHANGED <<spinnerHasError, installReturn, failedIn>>
                 ELSE /\ defaultLogError
                      /\ installReturn' = "failed"
                      /\ failedIn' = "resolution"
                      /\ pc' = "ret"
              /\ UNCHANGED <<installEntrypoints, assetEntrypoints, importMap>>
         ELSE /\ resolved' = MapSet(resolved, installSpecifier, resolution.type)
              /\ CASE resolution.type = "JS" ->
                     /\ installEntrypoints' =
                          MapSet(installEntrypoints, targetName, resolution.loc)
                     /\ importMap' =
                          ExpandAliases(alias,
                                        MapSet(importMap, installSpecifier,
                                               LocalJsUrl(proxiedName)),
                                        installSpecifier, targetName)
                     /\ installResults' =
                          Append(installResults, <<installSpecifier, "SUCCESS">>)
                     /\ UNCHANGED assetEntrypoints
                  [] resolution.type = "ASSET" ->
                     /\ assetEntrypoints' =
                          MapSet(assetEntrypoints, targetName, resolution.loc)
                     /\ importMap' = MapSet(importMap, installSpecifier,
                                            LocalAssetUrl(proxiedName))
                     /\ installResults' =
                          Append(installResults, <<installSpecifier, "ASSET">>)
                     /\ UNCHANGED installEntrypoints
                  [] OTHER ->
                     UNCHANGED <<installEntrypoints, assetEntrypoints,
                                 importMap, installResults>>
              /\ pc' = "loop"
              /\ UNCHANGED <<spinnerHasError, installReturn, failedIn>>
  /\ UNCHANGED <<configVars, otherVars, lockfile, todo, dependencyStats,
                 warnVars, errFile, diskVars, result>>

NextResolve ==
  \/ ResolveWebDependency
  \/ InstallResolved

SpecResolve == InitResolve /\ [][NextResolve]_vars

(***************************************************************************)
(* parseCodeForInstallTargets called on one file.                          *)
(***************************************************************************)
InitParse ==
  /\ pc = "parseCodeForInstallTargets"
  /\ file \in SourceFiles
  /\ parsed = NotParsed
  /\ NoUserPlugins
  /\ installTargets = {}
  /\ externalPackages = {}
  /\ alias = <<>>
  /\ webDependencies = [present |-> FALSE, keys |-> {}]
  /\ nodeModulesInstalled = TRUE
  /\ ScanIdle
  /\ CommandIdle
  /\ ResolverIdle
  /\ FreshRun

\* parseCodeForInstallTargets, scan-imports.ts lines 177-212
ParseCodeForInstallTargets ==
  /\ pc = "parseCodeForInstallTargets"
  /\ parsed' = parseCodeOfFile(file.locOnDisk, file.baseExt, file.contents,
                               file.cleanThrows)
  /\ pc' = "parsed"
  /\ UNCHANGED <<configVars, scanVars, commandVars, resolverVars,
                 bundlerVars, file,
                 lockfile, installLocals, installReturn, installResults,
                 spinnerHasError, dependencyStats, warnVars, failVars,
                 diskVars, result>>

NextParse == ParseCodeForInstallTargets

SpecParse == InitParse /\ [][NextParse]_vars

(***************************************************************************)
(* run() and install() with the bundler followed warning by warning, for   *)
(* a configuration that declares bundler plugins (installOptions.rollup,   *)
(* line 333) and aliases a package to a specifier that is not a file name. *)
(***************************************************************************)
BundleTargets == {{SpecA}, {SpecB}, {SpecAQuery}, {SpecA, SpecB}}

BundleAliases ==
  {<<>>, <<[from |-> SpecB, to |-> SpecA]>>,
   <<[from |-> SpecB, to |-> SpecAQuery]>>}

BundleWebDependencies ==
  {[present |-> FALSE, keys |-> {}], [present |-> TRUE, keys |-> {SpecA}]}

InitBundle ==
  /\ pc = "run"
  /\ installTargets \in BundleTargets
  /\ externalPackages = {}
  /\ alias \in BundleAliases
  /\ webDependencies \in BundleWebDependencies
  /\ nodeModulesInstalled \in (IF webDependencies.present THEN {TRUE}
                               ELSE BOOLEAN)
  /\ userPlugins \in UserPluginLists
  /\ plugins = <<>>
  /\ ScanIdle
  /\ CommandIdle
  /\ ResolverIdle
  /\ ParseIdle
  /\ FreshRun

NextBundle ==
  \/ RunStart
  \/ ResolveRemoteOk
  \/ ResolveRemoteFail
  \/ Rimraf
  \/ InstallStart
  \/ LoopLockfile
  \/ LoopResolve
  \/ LoopResolveFail
  \/ LoopEnd
  \/ OnWarnSeries
  \/ RollupOk
  \/ RollupFail
  \/ BundleWriteOk
  \/ BundleWriteFail
  \/ WriteImportMap
  \/ CopyAssets
  \/ RunRethrow
  \/ RunReturn

SpecBundle == InitBundle /\ [][NextBundle]_vars

(***************************************************************************)
(* Properties.                                                             *)
(***************************************************************************)
\* the specifier is keyed in the lockfile given to install
LockKeyed(s) == lockfile.present /\ s \in DOMAIN lockfile.imports

\* the specifier is covered by an externalized-package prefix
Covered(s) ==
  \E ext \in externalPackages : s = ext \/ StartsWith(s, ext \o <<"/">>)

\* the specifiers install iterates over
InstallSpecs == AllInstallSpecifiers(installTargets, externalPackages, alias)

\* the resolver gave this kind for the specifier
ResolvedAs(s, kind) == s \in DOMAIN resolved /\ resolved[s] = kind

\* the output name of a specifier and the import-map URL derived from it
OutputName(s) == getWebDependencyName(s)
LocalForm(s) == LocalJsUrl(sanitizePackageName(OutputName(s)))

\* the bundler input map that the install specifiers call for: per output
\* name, the lockfile URL of a lockfile-keyed specifier or the resolved path
\* of a JS specifier; of two specifiers with one output name the later in
\* sort order stands
ExpectedEntrypoints ==
  LET contrib == {s \in InstallSpecs : LockKeyed(s) \/ ResolvedAs(s, "JS")}
      names == {OutputName(s) : s \in contrib}
      last(n) == CHOOSE s \in contrib :
                   /\ OutputName(s) = n
                   /\ \A t \in contrib :
                        OutputName(t) = n => (t = s \/ StrLess(t, s))
  IN  [n \in names |->
         IF LockKeyed(last(n)) THEN lockfile.imports[last(n)]
         ELSE ResolvedLoc(last(n))]

AliasOverwritten(s) ==
  \E i \in 1..Len(alias) :
    /\ alias[i].from = s
    /\ ResolvedAs(alias[i].to, "JS")
    /\ importMap[s] = LocalJsUrl(OutputName(alias[i].to))

ExpandedAliasKeys ==
  {alias[i].from :
     i \in {j \in 1..Len(alias) :
              alias[j].to \in InstallSpecs /\ ResolvedAs(alias[j].to, "JS")}}

C4_ImportMapUrlsExist ==
  installReturn = "success" =>
    \A k \in DOMAIN importMap :
      \/ UrlFile(importMap[k]) \in destFiles
      \/ lockfile.present /\ importMap[k] \in MapValues(lockfile.imports)

\* C5: a target covered by an externalized-package prefix is absent from the
\* bundler inputs and from the keys of the import map, whatever aliases are
\* configured.
C5_ExternalizedAbsent ==
  \A t \in installTargets :
    Covered(t) =>
      /\ t \notin DOMAIN importMap
      /\ ResolvedLoc(t) \notin MapValues(installEntrypoints)

\* the targets rewritten through their alias, then filtered by the
\* externalized prefixes
RewriteThenFilter ==
  {s \in {AliasRewrite(alias, t) : t \in installTargets} : ~ Covered(s)}

\* C6: alias rewriting and external-prefix filtering give the same surviving
\* set in either order when the alias target is itself externalized: a target
\* rewritten by a package alias to a specifier covered by an externalized
\* prefix is removed and is never resolved or bundled.
C6_AliasToExternalRemoved ==
  /\ \A t \in installTargets :
       (AliasRewrite(alias, t) # t /\ Covered(AliasRewrite(alias, t))) =>
         /\ AliasRewrite(alias, t) \notin Range(todo)
         /\ AliasRewrite(alias, t) \notin DOMAIN resolved
         /\ OutputName(AliasRewrite(alias, t)) \notin DOMAIN installEntrypoints
  /\ (/\ pc = "loop"
      /\ \A t \in installTargets :
           AliasRewrite(alias, t) # t => Covered(AliasRewrite(alias, t)))
       => Range(todo) \subseteq RewriteThenFilter

\* the install specifier ends up in the bundler input, the asset map or the
\* import map
Installed(s) ==
  LockKeyed(s) \/ ResolvedAs(s, "JS") \/ ResolvedAs(s, "ASSET")

\* C7: when two distinct install specifiers yield the same output name the
\* install surfaces an error: it never ends as a clean success with one entry
\* silently overwritten by the other.
C7_CollisionSurfaced ==
  (result.kind = "returned" /\ result.success /\ ~ result.hasError) =>
    \A s, t \in InstallSpecs :
      (s # t /\ Installed(s) /\ Installed(t)) =>
        sanitizePackageName(OutputName(s)) # sanitizePackageName(OutputName(t))

\* the run is over and resolution or bundling failed in it
FailedRun == pc = "done" /\ failedIn \in {"resolution", "rollup", "write"}

\* C8 (as claimed): any failure in resolution or bundling ends the run with
\* success=false and importMap=null, and with no output: no bundle file, no
\* import map file and no asset copy in the removed output directory.
C8_FailureGivesFailedResult ==
  FailedRun =>
    /\ result.kind = "returned"
    /\ ~ result.success
    /\ ~ result.importMap.present
    /\ destRemoved
    /\ destFiles = {}
    /\ ~ importMapFile.present

\* C8 (amended): a failure in resolution, or a bundler failure that carries a
\* file location, ends the run with success=false and importMap=null; a
\* bundler failure without a file location makes run throw.  Either way the
\* output directory was removed and holds no import map file and no asset
\* copy, and it holds bundle files only if the failure came while the bundle
\* was being written.
C8_FailureLeavesNoImportMap ==
  FailedRun =>
    /\ IF failedIn = "resolution" \/ errFile
       THEN /\ result.kind = "returned"
            /\ ~ result.success
            /\ ~ result.importMap.present
       ELSE result.kind = "thrown"
    /\ destRemoved
    /\ ~ importMapFile.present
    /\ destFiles \subseteq {EntryFileName(n) : n \in DOMAIN installEntrypoints}
    /\ failedIn # "write" => destFiles = {}

\* C8 witness: writing the bundle failed with a file location after the
\* bundle files were written, with an asset among the targets
C8_Witness ==
  /\ FailedRun
  /\ failedIn = "write"
  /\ errFile
  /\ destFiles # {}
  /\ DOMAIN assetEntrypoints # {}

\* the run is over, the unresolved catcher reported, and no step failed
UnresolvedOnly == pc = "done" /\ unresolvedSeen /\ failedIn = "none"

\* C9 (as claimed): a module id reported by the unresolved catcher is a fatal
\* error: the run ends with success=false and emits no output.
C9_UnresolvedIsFatal ==
  UnresolvedOnly =>
    /\ result.kind = "returned"
    /\ ~ result.success
    /\ destFiles = {}
    /\ ~ importMapFile.present

\* C9 (amended): a module id reported by the unresolved catcher is logged as
\* an error and the build goes on: every result returned after it carries
\* hasError=true, and when no step fails the run ends with success=true and
\* its output emitted.
C9_UnresolvedSetsHasError ==
  /\ (pc = "done" /\ unresolvedSeen /\ result.kind = "returned") =>
       result.hasError
  /\ UnresolvedOnly =>
       /\ result.kind = "returned"
       /\ result.success
       /\ importMapFile.present
       /\ \A n \in DOMAIN installEntrypoints : EntryFileName(n) \in destFiles

\* C9 witness: a run that ended after the unresolved catcher reported, with
\* no failing step
C9_Witness == UnresolvedOnly /\ result.kind = "returned"

\* files emitted by this run are in the output directory
FilesEmitted == destFiles \ {StaleFile} # {}

\* C10 (as claimed): every run, also one with an empty install-target list,
\* removes the output directory, and does so before any file is emitted.
C10_EveryRunRemovesDest ==
  /\ pc = "done" => (destRemoved /\ StaleFile \notin destFiles)
  /\ FilesEmitted => destRemoved

\* C10 (amended): every run with a non-empty install-target list whose remote
\* resolution did not end the process removes the output directory, and does
\* so before any file is emitted; a run with an empty install-target list
\* returns without removing it.
C10_NonEmptyRunRemovesDest ==
  /\ (pc = "done" /\ installTargets # {} /\ failedIn # "remote") =>
       (destRemoved /\ StaleFile \notin destFiles)
  /\ FilesEmitted => (destRemoved /\ StaleFile \notin destFiles)
  /\ (pc = "done" /\ installTargets = {}) => ~ destRemoved

\* C10 witness: a run that removed the directory and then emitted files
C10_Witness == pc = "done" /\ destRemoved /\ FilesEmitted

\* the run is over and returned success
Succeeded == pc = "done" /\ result.kind = "returned" /\ result.success

\* the install of this run had an entry point to bundle or an asset to copy
SomethingInstalled ==
  DOMAIN installEntrypoints # {} \/ DOMAIN assetEntrypoints # {}

\* C11 (as claimed): every run that ends with success=true has written the
\* import map file into the output directory, with the content of the
\* importMap of its result, also when every target was externalized or
\* ignored or the target list was empty.
C11_SuccessWritesImportMap ==
  Succeeded =>
    /\ importMapFile.present
    /\ ImportMapFileName \in destFiles
    /\ importMapFile.imports = result.importMap.imports

\* C11 (amended): a run that ends with success=true and had a JS entry point
\* or an asset to install has written the import map file, with the content
\* of the importMap of its result; a successful run with nothing to install
\* (empty target list, or every target externalized or ignored) writes no
\* import map file and returns an empty import map.
C11_SuccessWithEntriesWritesImportMap ==
  Succeeded =>
    IF SomethingInstalled
    THEN /\ importMapFile.present
         /\ ImportMapFileName \in destFiles
         /\ importMapFile.imports = result.importMap.imports
         /\ result.importMap.imports # EmptyMap
    ELSE /\ ~ importMapFile.present
         /\ ImportMapFileName \notin destFiles
         /\ result.importMap.present
         /\ result.importMap.imports = EmptyMap

\* C11 witness: a successful run that installed an asset only and wrote an
\* import map with its key
C11_Witness ==
  /\ Succeeded
  /\ DOMAIN installEntrypoints = {}
  /\ DOMAIN assetEntrypoints # {}
  /\ importMapFile.present
  /\ DOMAIN importMapFile.imports # {}

\* the bundler has been started
BundlerStarted == pc \in {"rollup", "write"}

\* C12: for every install specifier either the lockfile contains it or the
\* resolver has returned a location (JS, ASSET or IGNORE) for it before the
\* bundler is started.
C12_ResolvedBeforeBundling ==
  BundlerStarted =>
    \A s \in InstallSpecs :
      \/ LockKeyed(s)
      \/ ResolvedAs(s, "JS") \/ ResolvedAs(s, "ASSET") \/ ResolvedAs(s, "IGNORE")

\* C12 witness: the bundler is started after one specifier was served by
\* the lockfile and another was resolved as a types-only package
C12_Witness ==
  /\ pc = "rollup"
  /\ \E s \in InstallSpecs : LockKeyed(s)
  /\ \E t \in InstallSpecs : ~ LockKeyed(t) /\ ResolvedAs(t, "IGNORE")

\* the specifier matches an alias entry whose value is a path
PathAliased(s) ==
  \E i \in 1..Len(alias) :
    /\ s = alias[i].from \/ StartsWith(s, alias[i].from \o <<"/">>)
    /\ Head(alias[i].to) \in {".", "/"}

\* the scanned import statements that name a package not aliased to a path
KeptImports ==
  {i \in 1..Len(scannedImports) :
     /\ IsBareSpecifier(scannedImports[i].specifier)
     /\ ~ PathAliased(scannedImports[i].specifier)}

\* the number of targets the known entry points and the remote manifest give
KnownCount == IF knownEntrypoints.present THEN Len(knownEntrypoints.list) ELSE 0
WebCount ==
  IF webDependencies.present THEN Cardinality(webDependencies.keys) ELSE 0

\* the targets of the three sources, one per entry, key and import statement
SourceTargets ==
  {createInstallTarget(knownEntrypoints.list[i], TRUE) : i \in 1..KnownCount}
    \cup {createInstallTarget(k, TRUE) :
            k \in IF webDependencies.present THEN webDependencies.keys ELSE {}}
    \cup {parseImportStatement(scannedImports[i]) : i \in KeptImports}

C14_PathAliasedNeverInstalled ==
  \A s \in Specifiers :
    PathAliased(s) =>
      /\ s \notin TargetSpecifiers(installTargetList)
      /\ s \notin DOMAIN resolved
      /\ OutputName(s) \notin DOMAIN installEntrypoints
      /\ s \notin DOMAIN importMap

\* node_modules is missing and no remote-dependency manifest is declared
ConfigInvalid == ~ webDependencies.present /\ ~ nodeModulesInstalled

\* C15 (as claimed): with node_modules missing and no remote manifest the
\* invocation fails fatally before the files are enumerated and scanned.
C15_ConfigInvalidFailsBeforeScan ==
  ConfigInvalid =>
    /\ ~ scanned
    /\ pc = "exit" => exitCode = "exit1"

\* C15 (amended): with node_modules missing and no remote manifest the
\* invocation scans first.  When the scan gives no install target, command
\* logs an error and returns without failing; otherwise run removes the
\* output directory, install fails before it resolves any specifier
\* (success=false, nothing emitted), and command exits with status 1.
C15_ConfigInvalidFailsAfterScan ==
  ConfigInvalid =>
    /\ failedIn = "config" =>
         /\ scanned
         /\ installTargetList # <<>>
         /\ destRemoved
         /\ resolved = EmptyMap
    /\ pc = "exit" =>
         /\ scanned
         /\ IF installTargetList = <<>>
            THEN /\ exitCode = "returned"
                 /\ failedIn = "none"
                 /\ ~ destRemoved
            ELSE /\ exitCode = "exit1"
                 /\ failedIn = "config"
                 /\ result.kind = "returned"
                 /\ ~ result.success
                 /\ destFiles = {}
                 /\ ~ importMapFile.present

\* C15 witness: the invocation ended with status 1 for the missing
\* node_modules, after the scan
C15_Witness ==
  /\ ConfigInvalid
  /\ pc = "exit"
  /\ scanned
  /\ failedIn = "config"
  /\ exitCode = "exit1"

\* command is over after a run that returned a result
CommandRan == pc = "exit" /\ result.kind = "returned"

\* C16 (as claimed): a run that completed with success=true and
\* hasError=true ends the command with the exit outcome of a clean success.
C16_HasErrorKeepsExit ==
  (CommandRan /\ result.success /\ result.hasError) => exitCode = "returned"

\* C16 (amended): a logged error sets the hasError flag returned in the run
\* result, and the flag changes the exit: command exits with status 1 when
\* the run returned success=false or hasError=true, and returns normally
\* only after a clean success.
C16_HasErrorExitsWithStatus ==
  /\ (pc = "done" /\ result.kind = "returned" /\ unresolvedSeen) =>
       result.hasError
  /\ CommandRan =>
       IF result.success /\ ~ result.hasError
       THEN exitCode = "returned"
       ELSE exitCode = "exit1"

\* C16 witness: a run that succeeded with a logged error, and command
\* exited with status 1
C16_Witness ==
  /\ CommandRan
  /\ result.success
  /\ result.hasError
  /\ exitCode = "exit1"

\* this run's install wrote its bundle
BundleWritten ==
  installReturn = "success" /\ DOMAIN installEntrypoints # {}

\* C17: no in-memory state survives from one run to the next: the hasError
\* flag and the stats a run returns, and the install-result list, reflect
\* only events of that run, whatever an earlier invocation logged.
C17_RunStateIsFresh ==
  /\ (pc = "done" /\ result.kind = "returned") =>
       /\ result.hasError => (failedIn # "none" \/ unresolvedSeen)
       /\ result.stats => BundleWritten
  /\ pc \notin {"getInstallTargets", "targets", "run", "exit"} =>
       /\ Len(installResults) <= Cardinality(InstallSpecs)
       /\ \A i \in 1..Len(installResults) :
            installResults[i][1] \in
              InstallSpecs \cup {OutputName(s) : s \in InstallSpecs}

\* C17 witness: a clean run in a process whose earlier invocation left the
\* error flag set
C17_Witness ==
  /\ pc = "done"
  /\ invocations = 2
  /\ leftHasError
  /\ result.kind = "returned"
  /\ result.success
  /\ ~ result.hasError

\* the resolver has returned or thrown
Resolved == pc = "resolved"

\* the subpath of the specifier, and its key in an export map
Subpath == parsePackageImportSpecifier(dep)[2]
SubpathKey == <<".", "/">> \o Subpath

\* the package manifest was found and has an exports map
HasExportMap == packageManifest.found /\ Truthy(packageManifest.exports)

\* the entry of the subpath in the export map, Undefined when the map has
\* no such key
SubpathEntry == Get(packageManifest.exports, SubpathKey)

\* the first of the values, in order, that is set to something: a non-empty
\* string, an object or another value; none gives Undefined
RECURSIVE FirstSet(_)
FirstSet(values) ==
  IF values = <<>> THEN Undefined
  ELSE IF Truthy(Head(values)) THEN Head(values)
  ELSE FirstSet(Tail(values))

\* the first of the values, in order, that is present at all
RECURSIVE FirstPresent(_)
FirstPresent(values) ==
  IF values = <<>> THEN Undefined
  ELSE IF Head(values).t # "undefined" THEN Head(values)
  ELSE FirstPresent(Tail(values))

\* the conditions of an entry in the order browser, import, default, require
Conditions(entry) ==
  <<Get(entry, KeyBrowser), Get(entry, KeyImport), Get(entry, KeyDefault),
    Get(entry, KeyRequire)>>

\* the entry itself when it is a string, the first set condition otherwise
SelectedValue(entry) ==
  IF entry.t = "string" THEN entry ELSE FirstSet(Conditions(entry))

\* the steps after the export map gave the result: the raw fallback when
\* there is no manifest at the specifier's path, the manifest lookup
\* otherwise
CascadeContinued ==
  /\ resolution.error # "exports"
  /\ ~ depManifest.found =>
       IF fileExists
       THEN resolution = Returned("JS", NodeResolve(ResolvedLoc(dep)))
       ELSE resolution = Thrown("notfound")
  /\ depManifest.found => resolution.error # "notfound"

\* C18 (as claimed): the export-map step raises ExportMapMismatch only when
\* the export map has the subpath's key and the value selected for it is not
\* a string; when the map lacks the key, resolution continues with the
\* manifest lookup and the raw fallback.
C18_MismatchOnlyForPresentKey ==
  (Resolved /\ ~ IsFileReference(dep) /\ Subpath # <<>> /\ HasExportMap) =>
    /\ resolution.error = "exports" =>
         /\ SubpathEntry.t # "undefined"
         /\ SelectedValue(SubpathEntry).t # "string"
    /\ SubpathEntry.t = "undefined" => CascadeContinued

\* C18 (amended): for a specifier with a subpath that is not a direct file
\* reference, the export-map step raises ExportMapMismatch exactly when the
\* package manifest has an exports map and the value selected for the
\* subpath's key is not a string, which includes the map lacking the key;
\* resolution continues with the manifest lookup and the raw fallback only
\* when the specifier has no subpath, the package manifest is not found or it
\* has no exports map.
C18_MismatchForAbsentKeyToo ==
  (Resolved /\ ~ IsFileReference(dep)) =>
    IF Subpath # <<>> /\ HasExportMap
    THEN IF SelectedValue(SubpathEntry).t = "string"
         THEN resolution.kind = "returned"
         ELSE resolution = Thrown("exports")
    ELSE CascadeContinued

\* C18 witness: the export map lacks the subpath's key and the resolver
\* raised ExportMapMismatch
C18_Witness ==
  /\ Resolved
  /\ dep = SpecADeep
  /\ HasExportMap
  /\ packageManifest.exports.t = "object"
  /\ SubpathKey \notin DOMAIN packageManifest.exports.o
  /\ resolution = Thrown("exports")

\* the directory of the package's manifest, then the value
UnderManifestDir(value) ==
  ResolvedLoc(parsePackageImportSpecifier(dep)[1]) \o <<"/">>
    \o SubSeq(value, 3, Len(value))

\* the export map of the specifier's package has the subpath's key
ExportMapHasKey ==
  /\ Subpath # <<>>
  /\ HasExportMap
  /\ SubpathEntry.t # "undefined"

\* C19 (as claimed): for a specifier packageName/subpath whose export map
\* has the key "./" + subpath, the resolver returns JS at
\* <manifest-dir>/<value>, value being the entry when it is a string and the
\* first present condition in the order browser, import, default, require
\* otherwise; a selected value that is not a string raises an error.
C19_ExportMapEntryResolved ==
  (Resolved /\ ExportMapHasKey) =>
    LET value == IF SubpathEntry.t = "string" THEN SubpathEntry
                 ELSE FirstPresent(Conditions(SubpathEntry))
    IN  IF value.t = "string"
        THEN resolution = Returned("JS", UnderManifestDir(value.s))
        ELSE resolution.kind = "thrown"

\* C19 (amended): for a specifier packageName/subpath that is not a direct
\* file reference and whose export map has the key "./" + subpath, the
\* resolver returns JS at <manifest-dir>/<value>, value being the entry when
\* it is a string and otherwise the first condition, in the order browser,
\* import, default, require, that is set to a non-empty value; when no
\* condition is set, or the selected value is not a string, it raises the
\* export-map error.  A direct file reference is resolved by node's lookup
\* whatever the export map says, to JS or ASSET by its extension.
C19_ExportMapEntryResolvedUnlessFile ==
  (Resolved /\ ExportMapHasKey) =>
    IF IsFileReference(dep)
    THEN IF fileExists
         THEN resolution = Returned(IF isJSFile(dep) THEN "JS" ELSE "ASSET",
                                    NodeResolve(ResolvedLoc(dep)))
         ELSE resolution = Thrown("MODULE_NOT_FOUND")
    ELSE LET value == SelectedValue(SubpathEntry)
         IN  IF value.t = "string"
             THEN resolution = Returned("JS", UnderManifestDir(value.s))
             ELSE resolution = Thrown("exports")

\* C19 witness: the entry has no browser condition and the import condition
\* was selected
C19_Witness ==
  /\ Resolved
  /\ dep = SpecADeep
  /\ ExportMapHasKey
  /\ SubpathEntry.t = "object"
  /\ Get(SubpathEntry, KeyBrowser) = Undefined
  /\ Get(SubpathEntry, KeyDefault) # Undefined
  /\ resolution =
       Returned("JS", ResolvedLoc(SpecA) \o <<"/", "im", ".", "j", "s">>)

\* the manifest lookup is the step that answers
ManifestLookup ==
  /\ ~ IsFileReference(dep)
  /\ ~ (Subpath # <<>> /\ HasExportMap)
  /\ depManifest.found
  /\ ~ depManifest.reserved

\* what the browser field gives: its value, or for an object the first set
\* of the keys specifier, "./index.js", "./index", "./", "."
BrowserEntry ==
  IF depManifest.browser.t = "object"
  THEN FirstSet(<<Get(depManifest.browser, dep),
                  Get(depManifest.browser, KeyIndexJs),
                  Get(depManifest.browser, KeyIndex),
                  Get(depManifest.browser, KeyDotSlash),
                  Get(depManifest.browser, KeyDot)>>)
  ELSE depManifest.browser

\* the entry of the first set field in the order browser:module, module,
\* main:esnext, browser, main
SelectedEntry ==
  FirstSet(<<depManifest.browserModule, depManifest.module,
             depManifest.mainEsnext, BrowserEntry, depManifest.main>>)

\* the node-resolved <manifest-dir>/<entry>
EntryLoc(entry) ==
  NodeResolve(ResolvedLoc(dep) \o <<"/">> \o
              (IF StartsWith(entry, <<".", "/">>)
               THEN SubSeq(entry, 3, Len(entry)) ELSE entry))

\* C20: in the package manifest lookup the entry is that of the first field
\* set (to a non-empty value) in the order browser:module, module,
\* main:esnext, browser, main, a browser object being probed for the keys
\* specifier, "./index.js", "./index", "./", "." in that order; when nothing
\* is selected the entry is implicit and index.js is used; the result is JS
\* at the node-resolved <manifest-dir>/<entry> whenever that file exists, and
\* IGNORE is given only for an implicit entry.
C20_ManifestEntrySelected ==
  (Resolved /\ ManifestLookup) =>
    LET implicit == SelectedEntry.t = "undefined"
        entry == IF implicit THEN Str(IndexJs) ELSE SelectedEntry
    IN  /\ (entry.t = "string" /\ fileExists) =>
             resolution = Returned("JS", EntryLoc(entry.s))
        /\ resolution.type = "IGNORE" =>
             implicit /\ depManifest.types /\ ~ fileExists
        /\ resolution.kind = "returned" => entry.t = "string"

\* C20 witness: no module field, the browser object lacks the specifier and
\* "./index.js", and its "./index" entry was resolved
C20_Witness ==
  /\ Resolved
  /\ ManifestLookup
  /\ dep = SpecADeep
  /\ depManifest.browserModule = EmptyStr
  /\ depManifest.module = Undefined
  /\ depManifest.mainEsnext = Undefined
  /\ depManifest.browser.t = "object"
  /\ DOMAIN depManifest.browser.o = {SpecA, KeyIndex, KeyDot}
  /\ depManifest.main # Undefined
  /\ resolution =
       Returned("JS", ResolvedLoc(SpecADeep) \o <<"/", "p3", ".", "j", "s">>)

\* the resolver has been called
ResolverCalled == resolution.kind # "none"

\* install has dealt with what the resolver gave
InstallHandled == ResolverCalled /\ pc # "resolved"

\* C21: resolveWebDependency gives IGNORE exactly when the manifest lookup
\* selects no entry (implicit index), the implicit index.js does not
\* resolve, and the manifest carries types or typings; every other failure
\* to resolve the selected entry is thrown, and install then fails.
C21_IgnoreOnlyForTypesOnlyPackage ==
  ResolverCalled =>
    LET implicit == SelectedEntry.t = "undefined"
        entry == IF implicit THEN Str(IndexJs) ELSE SelectedEntry
        typesOnly == /\ ManifestLookup
                     /\ implicit
                     /\ ~ fileExists
                     /\ depManifest.types
    IN  /\ resolution = Returned("IGNORE", NoLoc) <=> typesOnly
        /\ resolution.type = "IGNORE" => resolution.loc = NoLoc
        /\ (ManifestLookup /\ entry.t = "string" /\ ~ fileExists
            /\ ~ typesOnly) =>
             resolution = Thrown("MODULE_NOT_FOUND")
        /\ (InstallHandled /\ resolution.kind = "thrown") =>
             /\ installReturn = "failed"
             /\ pc = "ret"
             /\ spinnerHasError
             /\ importMap = EmptyMap
        /\ (InstallHandled /\ resolution.type = "IGNORE") =>
             /\ installReturn = "none"
             /\ pc = "loop"
             /\ installEntrypoints = EmptyMap
             /\ assetEntrypoints = EmptyMap
             /\ importMap = EmptyMap

\* C21 witness: a manifest with types whose named entry does not resolve:
\* the error was thrown and install failed
C21_Witness ==
  /\ InstallHandled
  /\ ManifestLookup
  /\ depManifest.types
  /\ SelectedEntry.t = "string"
  /\ ~ fileExists
  /\ resolution = Thrown("MODULE_NOT_FOUND")
  /\ installReturn = "failed"

\* C22: a specifier that carries a file extension and is not a valid package
\* name is resolved itself by node's lookup, whatever the manifests and the
\* export map hold, to JS exactly when the extension is .js, .mjs or .cjs
\* and to ASSET otherwise.
C22_FileReferenceResolvedDirectly ==
  (ResolverCalled /\ extname(dep) # <<>> /\ ~ validForNewPackages(dep)) =>
    IF fileExists
    THEN /\ resolution.kind = "returned"
         /\ resolution.loc = NodeResolve(ResolvedLoc(dep))
         /\ resolution.type = "JS" <=>
              extname(dep) \in {<<".", "j", "s">>, <<".", "m", "j", "s">>,
                                <<".", "c", "j", "s">>}
         /\ resolution.type \in {"JS", "ASSET"}
    ELSE resolution = Thrown("MODULE_NOT_FOUND")

\* C22 witness: "b/x.mjs" resolved to JS although the package's export map
\* has a key for another file
C22_Witness ==
  /\ ResolverCalled
  /\ dep = SpecBFileMjs
  /\ HasExportMap
  /\ packageManifest.exports.t = "object"
  /\ packageManifest.exports.o # <<>>
  /\ resolution = Returned("JS", ResolvedLoc(SpecBFileMjs))

\* parseCodeForInstallTargets has returned or thrown
Parsed == pc = "parsed"

\* the argument of a dynamic import is a literal string: quoted, or a
\* template without interpolation
LiteralArgument(text) ==
  /\ Len(text) >= 2
  /\ \/ Head(text) = "'" /\ text[Len(text)] = "'"
     \/ Head(text) = "\"" /\ text[Len(text)] = "\""
     \/ /\ Head(text) = "BACKTICK"
        /\ text[Len(text)] = "BACKTICK"
        /\ \A i \in 1..Len(text) : text[i] # "$"

\* the dynamic imports of a bare specifier written as a literal, in the
\* contents the lexer read
LiteralDynamicImports(contents) ==
  {i \in 1..Len(contents) :
     /\ contents[i].kind = "dynamic"
     /\ LiteralArgument(contents[i].text)
     /\ IsBareSpecifier(SubSeq(contents[i].text, 2, Len(contents[i].text) - 1))}

\* the contents the lexer read successfully
ContentsRead ==
  IF parsed.attempt2 THEN cleanCodeForParsing(file.contents)
  ELSE file.contents

\* the targets that come from dynamic imports
DynamicTargets ==
  {i \in 1..Len(parsed.targets) :
     /\ parsed.targets[i].all
     /\ ~ parsed.targets[i].default}

\* C23: a dynamic import yields an install target when its argument is a
\* literal string, quoted or a template without interpolation, and is
\* dropped for any other argument; import.meta is always dropped.
C23_DynamicLiteralYieldsTarget ==
  (Parsed /\ parsed.kind = "returned") =>
    Cardinality(DynamicTargets) =
      Cardinality(LiteralDynamicImports(ContentsRead))

\* the second attempt is needed: the first was skipped or failed
SecondAttemptNeeded ==
  \/ file.baseExt \in JsxExtensions
  \/ \E i \in 1..Len(file.contents) : file.contents[i].kind = "broken"

\* the targets of the statements of contents, one statement at a time
RECURSIVE StatementTargets(_)
StatementTargets(contents) ==
  IF contents = <<>> THEN <<>>
  ELSE LET st == Head(contents)
           rest == StatementTargets(Tail(contents))
           quoted == /\ Len(st.text) >= 2
                     /\ Head(st.text) \in {"'", "\""}
                     /\ st.text[Len(st.text)] \in {"'", "\""}
           specifier ==
             CASE st.kind = "static" -> st.text
               [] st.kind = "dynamic" /\ quoted ->
                    SubSeq(st.text, 2, Len(st.text) - 1)
               [] OTHER -> NoSpecifier
       IN  IF IsBareSpecifier(specifier)
           THEN <<[specifier |-> specifier,
                   all |-> st.kind = "dynamic" \/ ~ st.hasDefault,
                   default |-> st.kind = "static" /\ st.hasDefault,
                   namespace |-> FALSE, named |-> <<>>]>> \o rest
           ELSE rest

\* the statements the second attempt keeps: static imports first, then the
\* dynamic imports of a literal
RECURSIVE KeptStatements(_, _)
KeptStatements(contents, kind) ==
  IF contents = <<>> THEN <<>>
  ELSE IF /\ Head(contents).kind = kind
          /\ kind = "dynamic" => LiteralArgument(Head(contents).text)
       THEN <<Head(contents)>> \o KeptStatements(Tail(contents), kind)
       ELSE KeptStatements(Tail(contents), kind)

\* C24: parseCodeForInstallTargets skips the first attempt for the base
\* extensions .jsx and .tsx, runs the second attempt exactly when the first
\* was skipped or failed, derives every target from the imports and the
\* contents of the attempt that succeeded, and when the second attempt
\* fails too it names the file in a fatal error and returns no target.
C24_TwoAttemptParse ==
  Parsed =>
    /\ parsed.attempt2 <=> SecondAttemptNeeded
    /\ IF ~ SecondAttemptNeeded
       THEN parsed = ParseReturned(StatementTargets(file.contents), FALSE)
       ELSE IF file.cleanThrows
       THEN /\ parsed.kind = "thrown"
            /\ parsed.named = file.locOnDisk
            /\ parsed.targets = <<>>
       ELSE parsed =
              ParseReturned(
                StatementTargets(KeptStatements(file.contents, "static")
                                 \o KeptStatements(file.contents, "dynamic")),
                TRUE)

\* C24 witness: a .tsx file with broken syntax before its import: the
\* target was read in the cleaned contents
C24_Witness ==
  /\ Parsed
  /\ file.baseExt = <<".", "t", "s", "x">>
  /\ file.contents = <<BrokenSyntax, StaticA>>
  /\ parsed.kind = "returned"
  /\ parsed.attempt2
  /\ Len(parsed.targets) = 1
  /\ parsed.targets[1].specifier = SpecA
  /\ parsed.targets[1].default

(***************************************************************************)
(* The bundler's warnings, plugins and errors.                             *)
(***************************************************************************)
\* C25: of the circular-dependency warnings of one build only the first is
\* reported; none of them reaches the warning sink, and none of them fails
\* the build: while only such warnings came, no error is flagged and
\* install goes on.
C25_CircularReportedOnce ==
  /\ isCircularImportFound <=> circularSeen > 0
  /\ circularLogs = IF circularSeen > 0 THEN 1 ELSE 0
  /\ sinkWarnings + circularSeen <= warnings
  /\ ~ unresolvedSeen => sinkWarnings + circularSeen = warnings
  /\ pc = "rollup" /\ circularSeen = warnings =>
       ~ spinnerHasError /\ installReturn = "none"

\* C25 witness: a build that gave three circular-dependency warnings and
\* nothing else ended in success with one of them reported
C25_Witness ==
  /\ pc = "done"
  /\ circularSeen = 3
  /\ warnings = 3
  /\ circularLogs = 1
  /\ sinkWarnings = 0
  /\ result.kind = "returned"
  /\ result.success
  /\ ~ result.hasError

\* the plugins the user declared, in declared order
DeclaredPlugins == SelectSeq(userPlugins, LAMBDA entry : entry # NoPlugin)

AddedAliasEntries ==
  {i \in 1..Len(alias) :
     /\ alias[i].to \in DOMAIN resolved
     /\ resolved[alias[i].to] = "JS"
     /\ alias[i].to \in DOMAIN importMap
     /\ alias[i].from \in DOMAIN importMap}

\* C27: an alias key that install adds to the import map, its value being a
\* resolved JS install specifier, maps to the same URL as the import-map
\* entry of that install specifier.
C27_AliasKeySameUrl ==
  \A i \in AddedAliasEntries :
    importMap[alias[i].from] = importMap[alias[i].to]

\* the bundler threw, while building or while writing, and run is over
BundlerFailed == pc = "done" /\ failedIn \in {"rollup", "write"}

\* C28: a bundler error ends in a failed result (success=false,
\* importMap=null, hasError=true) exactly when it carries a file location
\* (loc.file or id); an error without one is thrown on by install and by
\* run: the caller gets an exception and no result.  A run in which the
\* bundler did not throw never ends in an exception.
C28_BundlerErrorNeedsFileLocation ==
  /\ BundlerFailed /\ errFile =>
       /\ installReturn = "failed"
       /\ result.kind = "returned"
       /\ ~ result.success
       /\ ~ result.importMap.present
       /\ result.hasError
  /\ BundlerFailed /\ ~ errFile =>
       /\ installReturn = "thrown"
       /\ result.kind = "thrown"
  /\ installReturn = "thrown" \/ result.kind = "thrown" =>
       failedIn \in {"rollup", "write"} /\ ~ errFile

\* C28 witness: the bundler threw an error without a file location while
\* it was building, after a warning, and run threw
C28_Witness ==
  /\ BundlerFailed
  /\ failedIn = "rollup"
  /\ ~ errFile
  /\ warnings > 0
  /\ result.kind = "thrown"

====
